---- MODULE Spec2Model ----
(***************************************************************************)
(* Verification model of the QuickAI jump-to-external-editor extension:    *)
(*   - CacheManager      (TTL + LRU key/value cache)                        *)
(*   - CommandExecutor   (command construction, launch, process table)      *)
(*   - ConfigManager     (editor registry)                                  *)
(*   - DebounceUtils     (debounce / throttle)                              *)
(* Each component has its own specification over the shared variables.      *)
(***************************************************************************)
EXTENDS Integers, Sequences, FiniteSets, TLC

VARIABLES
    now,               \* Date.now()
    \* ---- CacheManager ----
    cache,             \* Map<string, CacheEntry>, in insertion order
    accessTimes,       \* Map<string, number>, in insertion order
    config,            \* CacheManagerConfig
    shadow,            \* history: per key, the arguments and time of the latest set that was
                       \* not followed by a delete, a clear or an eviction of the key
    \* ---- CommandExecutor ----
    platform,          \* platformInfo.platform
    fsExists,          \* the paths fs.existsSync answers true for
    errorHandler,      \* the injected error handler: "none", "ok" or "throws"
    calls,             \* executeJumpCommand invocations
    children,          \* child processes created by exec / spawn
    runningProcesses,  \* Map<string, ChildProcess>
    executionStats,    \* executionStats
    commandBuilders,   \* the keys of the commandBuilders map
    \* ---- ConfigManager ----
    editors,           \* the 'quickai.editors' setting
    nextId,            \* source of fresh uuids
    lastRegOp,         \* history: the last registry operation
    inFlight,          \* the operations that await their settings write, and their history
    settings,          \* the 'quickai.debounceTime' setting, and the last updateDebounceTime
    \* ---- DebounceUtils.debounce ----
    opts,              \* wait / leading / trailing / maxWait of the wrapper
    timerId,           \* timerId (0 = undefined)
    timers,            \* the setTimeout timers that are still armed
    nextTimer,         \* source of fresh timer handles
    lastCallTime,      \* lastCallTime (-1 = undefined)
    lastInvokeTime,    \* lastInvokeTime
    lastArgs,          \* lastArgs (0 = undefined)
    nextArg,           \* the argument the next call passes
    burst,             \* history: the current burst of calls and the invocations of func since it began,
                       \* and the arguments of every invocation of func so far
    prevBurst,         \* history: the burst before it, as it stood when the current one began
    deferred,          \* history: at the latest call, the time since func was invoked (or the burst began)
    result,            \* result (0 = undefined)
    lastFlush,         \* history: the latest flush() and what happened since
    afterCancel,       \* history: the latest cancel() and what happened since
    skews,             \* history: how many times the clock was set back
    \* ---- DebounceUtils.rateLimit / retry / batch / once ----
    rateLimiter,       \* the closure of a rateLimit wrapper: calls, and the history of its calls
    retrier,           \* one call of a retry wrapper: loop index, lastError, position, history
    batcher,           \* the closure of a batch wrapper: items, timeoutId, armed timers, history
    oncer,             \* the closure of a once wrapper: called, result, and the history of its calls
    \* ---- QuickAIExtension and MouseListener ----
    extension,         \* lastClickContext, lastClickTime, and the history of the trigger commands
    mouseListener,     \* config, isProcessing, debounceTimer, jumpCallback, eventStats, history
    \* ---- CacheManager: the cleanup interval timer ----
    cacheLife          \* cleanupTimer (next due time, -1 = cleared), and history of updateConfig

cacheVars == <<cache, accessTimes, config, shadow>>
execVars  == <<platform, fsExists, errorHandler, calls, children, runningProcesses, executionStats,
               commandBuilders>>
regVars   == <<editors, nextId, lastRegOp, inFlight, settings>>
utilVars  == <<rateLimiter, retrier, batcher, oncer>>
hostVars  == <<extension, mouseListener, cacheLife>>
debVars   == <<opts, timerId, timers, nextTimer, lastCallTime, lastInvokeTime, lastArgs,
               nextArg, burst, prevBurst, deferred, result, lastFlush, afterCancel, skews,
               utilVars, hostVars>>
vars      == <<now, cacheVars, execVars, regVars, debVars>>

----------------------------------------------------------------------------
(* Generic helpers                                                         *)

Undefined == [kind |-> "undefined"]

Range(s) == {s[i] : i \in 1..Len(s)}

Min2(a, b) == IF a <= b THEN a ELSE b

\* JS Map, kept as a sequence of records with a key field, in insertion order
MapHas(m, k) == \E i \in 1..Len(m) : m[i].key = k

MapGet(m, k) == m[CHOOSE i \in 1..Len(m) : m[i].key = k]

MapSet(m, k, rec) ==
    IF MapHas(m, k)
    THEN [i \in 1..Len(m) |-> IF m[i].key = k THEN rec ELSE m[i]]
    ELSE Append(m, rec)

MapDelete(m, k) == SelectSeq(m, LAMBDA e : e.key # k)

MapKeys(m) == {m[i].key : i \in 1..Len(m)}

----------------------------------------------------------------------------
(* CacheManager                                                            *)

DefaultSettingsCacheTtl == 1000
DefaultMaxCacheSize == 100

\* a cache manager value: the fields the operations read and write (the hit, miss
\* and eviction counters are statistics no operation reads back; they are left out)
CM == [cache |-> cache, accessTimes |-> accessTimes, config |-> config]

\* variant of isExpired that already expires an entry at the instant timestamp + ttl
isExpired_AtBoundary(entry, t) == t - entry.timestamp >= entry.ttl

isExpired(entry, t) == t - entry.timestamp > entry.ttl

\* variant of delete that leaves the access timestamp of the key behind
cacheDelete_KeepAccessTime(cm, key) ==
    [cm EXCEPT !.cache = MapDelete(cm.cache, key)]

cacheDelete(cm, key) ==
    [cm EXCEPT !.cache = MapDelete(cm.cache, key),
               !.accessTimes = MapDelete(cm.accessTimes, key)]

\* the scan of evictLeastRecentlyUsed: returns the position of oldestKey in
\* accessTimes (0 when oldestKey stays undefined)
RECURSIVE evictScan(_, _, _, _)
evictScan(acc, i, oldestIdx, oldestTime) ==
    IF i > Len(acc) THEN oldestIdx
    ELSE IF acc[i].time < oldestTime
         THEN evictScan(acc, i + 1, i, acc[i].time)
         ELSE evictScan(acc, i + 1, oldestIdx, oldestTime)

evictLeastRecentlyUsed(cm, t) ==
    LET oldestIdx == evictScan(cm.accessTimes, 1, 0, t)
    IN  IF oldestIdx # 0
        THEN cacheDelete(cm, cm.accessTimes[oldestIdx].key)
        ELSE cm

\* ttl = 0 stands for an omitted ttl argument
cacheSet(cm, key, data, ttl, t) ==
    LET cm1 == IF Len(cm.cache) >= cm.config.maxCacheSize /\ ~MapHas(cm.cache, key)
               THEN evictLeastRecentlyUsed(cm, t)
               ELSE cm
        entry == [key |-> key, data |-> data, timestamp |-> t,
                  ttl |-> IF ttl # 0 THEN ttl ELSE cm.config.settingsCacheTtl]
    IN  [cm1 EXCEPT !.cache = MapSet(cm1.cache, key, entry),
                    !.accessTimes = MapSet(cm1.accessTimes, key, [key |-> key, time |-> t])]

\* variant of cacheGet that leaves an expired entry in the store
cacheGet_KeepExpired(cm, key, t) ==
    IF ~MapHas(cm.cache, key)
    THEN [cm |-> cm, value |-> Undefined]
    ELSE IF isExpired(MapGet(cm.cache, key), t)
         THEN [cm |-> cm, value |-> Undefined]
         ELSE [cm |-> [cm EXCEPT !.accessTimes = MapSet(cm.accessTimes, key, [key |-> key, time |-> t])],
               value |-> MapGet(cm.cache, key).data]

\* returns the new cache manager value and the value handed to the caller
cacheGet(cm, key, t) ==
    IF ~MapHas(cm.cache, key)
    THEN [cm |-> cm, value |-> Undefined]
    ELSE IF isExpired(MapGet(cm.cache, key), t)
         THEN [cm |-> cacheDelete(cm, key), value |-> Undefined]
         ELSE [cm |-> [cm EXCEPT !.accessTimes = MapSet(cm.accessTimes, key, [key |-> key, time |-> t])],
               value |-> MapGet(cm.cache, key).data]

cacheHas(cm, key, t) ==
    IF ~MapHas(cm.cache, key)
    THEN [cm |-> cm, value |-> FALSE]
    ELSE IF isExpired(MapGet(cm.cache, key), t)
         THEN [cm |-> cacheDelete(cm, key), value |-> FALSE]
         ELSE [cm |-> cm, value |-> TRUE]

cacheClear(cm) == [cm EXCEPT !.cache = << >>, !.accessTimes = << >>]

RECURSIVE cleanupScan(_, _, _, _)
cleanupScan(cm, entries, i, t) ==
    IF i > Len(entries) THEN cm
    ELSE IF t - entries[i].timestamp > entries[i].ttl
         THEN cleanupScan(cacheDelete(cm, entries[i].key), entries, i + 1, t)
         ELSE cleanupScan(cm, entries, i + 1, t)

\* variant of the sweep that already removes an entry at the instant timestamp + ttl
cleanupExpiredEntries_AtBoundary(cm, t) ==
    LET gone == {cm.cache[i].key : i \in {j \in 1..Len(cm.cache) :
                                            t - cm.cache[j].timestamp >= cm.cache[j].ttl}}
    IN  [cm EXCEPT !.cache = SelectSeq(cm.cache, LAMBDA e : e.key \notin gone),
                   !.accessTimes = SelectSeq(cm.accessTimes, LAMBDA e : e.key \notin gone)]

cleanupExpiredEntries(cm, t) == cleanupScan(cm, cm.cache, 1, t)

StoreCM(cm) ==
    /\ cache' = cm.cache
    /\ accessTimes' = cm.accessTimes
    /\ config' = cm.config

\* ---- bounds of the cache specification ----
MaxCacheTime == 2
CacheSpecSize == 2

CacheKeys == {<<"k", "1">>, <<"k", "2">>, <<"k", "3">>}
DataA == [kind |-> "val", v |-> "a"]
DataB == [kind |-> "val", v |-> "b"]
\* the (data, ttl) arguments of set: ttl 0 = omitted, otherwise a positive ttl as
\* ValidationUtils.validateTTL accepts it
CacheWrites == {<<DataA, 0>>, <<DataA, 1>>, <<DataB, 1>>}

NoShadow == [live |-> FALSE]

CacheInit(size) ==
    /\ cache = << >>
    /\ accessTimes = << >>
    /\ config = [settingsCacheTtl |-> DefaultSettingsCacheTtl, maxCacheSize |-> size]
    /\ shadow = [k \in CacheKeys |-> NoShadow]

CacheSetAction ==
    \E key \in CacheKeys, w \in CacheWrites :
        LET data == w[1]
            ttl == w[2]
            cm == cacheSet(CM, key, data, ttl, now)
            evicted == MapKeys(cache) \ MapKeys(cm.cache)
        IN  /\ StoreCM(cm)
            /\ shadow' = [k \in CacheKeys |->
                            IF k = key
                            THEN [live |-> TRUE, data |-> data, timestamp |-> now,
                                  ttl |-> IF ttl = 0 THEN config.settingsCacheTtl ELSE ttl]
                            ELSE IF k \in evicted THEN NoShadow ELSE shadow[k]]
            /\ UNCHANGED <<now, execVars, regVars, debVars>>

CacheGetAction ==
    \E key \in CacheKeys :
        /\ StoreCM(cacheGet(CM, key, now).cm)
        /\ UNCHANGED <<now, shadow, execVars, regVars, debVars>>

CacheHasAction ==
    \E key \in CacheKeys :
        /\ StoreCM(cacheHas(CM, key, now).cm)
        /\ UNCHANGED <<now, shadow, execVars, regVars, debVars>>

CacheDeleteAction ==
    \E key \in CacheKeys :
        /\ StoreCM(cacheDelete(CM, key))
        /\ shadow' = [shadow EXCEPT ![key] = NoShadow]
        /\ UNCHANGED <<now, execVars, regVars, debVars>>

CacheClearAction ==
    /\ StoreCM(cacheClear(CM))
    /\ shadow' = [k \in CacheKeys |-> NoShadow]
    /\ UNCHANGED <<now, execVars, regVars, debVars>>

\* one tick of the cleanup interval timer
CacheSweep ==
    /\ StoreCM(cleanupExpiredEntries(CM, now))
    /\ UNCHANGED <<now, shadow, execVars, regVars, debVars>>

CacheTick ==
    /\ now < MaxCacheTime
    /\ now' = now + 1
    /\ UNCHANGED <<cacheVars, execVars, regVars, debVars>>

----------------------------------------------------------------------------
(* Strings: JS strings are sequences of one-character strings               *)

Whitespace == {" ", "\t", "\n"}

\* s.trim() === ''
TrimIsEmpty(s) == \A i \in 1..Len(s) : s[i] \in Whitespace

\* s.includes(sub)
Includes(s, sub) ==
    \E i \in 0..(Len(s) - Len(sub)) : \A j \in 1..Len(sub) : s[i + j] = sub[j]

Digits == <<"0", "1", "2", "3", "4", "5", "6", "7", "8", "9">>

RECURSIVE NatStr(_)
NatStr(n) == IF n < 10 THEN <<Digits[n + 1]>> ELSE NatStr(n \div 10) \o <<Digits[(n % 10) + 1]>>

\* `${n}` for an integer n
NumStr(n) == IF n < 0 THEN <<"-">> \o NatStr(0 - n) ELSE NatStr(n)

\* s.replace(/c/g, by)
RECURSIVE ReplaceAll(_, _, _)
ReplaceAll(s, c, by) ==
    IF s = << >> THEN << >>
    ELSE (IF Head(s) = c THEN by ELSE <<Head(s)>>) \o ReplaceAll(Tail(s), c, by)

----------------------------------------------------------------------------
(* CommandExecutor: command construction                                    *)

\* variant of escapeWindowsPath that leaves backslashes single
escapeWindowsPath_Single(filePath) == filePath

escapeWindowsPath(filePath) == ReplaceAll(filePath, "\\", <<"\\", "\\">>)

escapeUnixPath(filePath) == ReplaceAll(filePath, "'", <<"'", "\"", "'", "\"", "'">>)

LineFlag == <<" ", "-", "-", "l", "i", "n", "e", " ">>
Nohup == <<"n", "o", "h", "u", "p">>
DevNullTail == <<" ", ">", " ", "/", "d", "e", "v", "/", "n", "u", "l", "l", " ",
                 "2", ">", "&", "1", " ", "&">>

WindowsBuilder(params) ==
    <<"\"">> \o escapeWindowsPath(params.editor.path) \o <<"\"">> \o LineFlag
        \o NumStr(params.lineNumber) \o <<" ", "\"">> \o escapeWindowsPath(params.filePath) \o <<"\"">>

\* the darwin and the linux builders have the same body
UnixBuilder(params) ==
    Nohup \o <<" ", "'">> \o escapeUnixPath(params.editor.path) \o <<"'">> \o LineFlag
        \o NumStr(params.lineNumber) \o <<" ", "\"">> \o escapeUnixPath(params.filePath) \o <<"\"">>
        \o DevNullTail

DefaultBuilder(params) ==
    <<"\"">> \o params.editor.path \o <<"\"">> \o LineFlag
        \o NumStr(params.lineNumber) \o <<" ", "\"">> \o params.filePath \o <<"\"">>

AllBuilders == {"win32", "darwin", "linux", "default"}

RunBuilder(name, params) ==
    CASE name = "win32" -> WindowsBuilder(params)
      [] name = "darwin" -> UnixBuilder(params)
      [] name = "linux" -> UnixBuilder(params)
      [] OTHER -> DefaultBuilder(params)

\* the backquote character (the module syntax has no literal for it)
Backquote == "bq"

ShellOperators == {Nohup, <<">">>, <<"<">>, <<"&">>, <<"|">>, <<"&", "&">>, <<"|", "|">>,
                   <<";">>, <<"$", "(">>, <<Backquote>>}

\* variant of containsShellOperators that does not look for the ampersand
containsShellOperators_NoAmpersand(command) ==
    \E operator \in ShellOperators \ {<<"&">>, <<"&", "&">>} : Includes(command, operator)

containsShellOperators(command) == \E operator \in ShellOperators : Includes(command, operator)

\* command.match(/(?:[^\s\"]+|\"[^\"]*\")+/g): cur is the match being extended
RECURSIVE matchParts(_, _, _, _)
matchParts(s, i, cur, parts) ==
    LET flush == IF cur = << >> THEN parts ELSE Append(parts, cur)
    IN  IF i > Len(s) THEN flush
        ELSE IF s[i] \in Whitespace THEN matchParts(s, i + 1, << >>, flush)
        ELSE IF s[i] # "\"" THEN matchParts(s, i + 1, Append(cur, s[i]), parts)
        ELSE IF \E j \in (i + 1)..Len(s) : s[j] = "\""
             THEN LET j == CHOOSE k \in (i + 1)..Len(s) :
                              s[k] = "\"" /\ \A m \in (i + 1)..(k - 1) : s[m] # "\""
                  IN  matchParts(s, j + 1, cur \o SubSeq(s, i, j), parts)
             ELSE matchParts(s, i + 1, << >>, flush)

\* returns [ok, program, arguments]; ok = FALSE is the thrown 'invalid command format'
parseCommandForUnix(command) ==
    LET parts == matchParts(command, 1, << >>, << >>)
        strip(a) == ReplaceAll(a, "\"", << >>)
    IN  IF Len(parts) = 0
        THEN [ok |-> FALSE, program |-> << >>, arguments |-> << >>]
        ELSE [ok |-> TRUE, program |-> strip(parts[1]),
              arguments |-> [k \in 1..(Len(parts) - 1) |-> strip(parts[k + 1])]]

\* error messages (tags for the thrown Error messages)
ValidationOk == "ok"

validateExecutionParams(params) ==
    IF params.editor = Undefined THEN "editor config must not be empty"
    ELSE IF params.editor.path = << >> \/ TrimIsEmpty(params.editor.path)
         THEN "editor path must not be empty"
    ELSE IF params.filePath = << >> \/ TrimIsEmpty(params.filePath)
         THEN "file path must not be empty"
    ELSE IF params.lineNumber < 1 THEN "line number must be at least 1"
    ELSE ValidationOk

CommandPrefix == <<"c", "o", "m", "m", "a", "n", "d", ":">>
PathExistsPrefix == <<"e", "d", "i", "t", "o", "r", "_", "p", "a", "t", "h", "_",
                      "e", "x", "i", "s", "t", "s", ":">>

PlatformChars(p) ==
    CASE p = "win32" -> <<"w", "i", "n", "3", "2">>
      [] p = "darwin" -> <<"d", "a", "r", "w", "i", "n">>
      [] p = "linux" -> <<"l", "i", "n", "u", "x">>
      [] OTHER -> <<"f", "r", "e", "e", "b", "s", "d">>

generateCommandCacheKey(params, plat) ==
    CommandPrefix \o params.editor.id \o <<":">> \o PlatformChars(plat)

PathExistsKey(editorPath) == PathExistsPrefix \o editorPath

CommandCacheTtl == 1000
PathExistsCacheTtl == 5000
WindowsGraceDelay == 100

----------------------------------------------------------------------------
(* CommandExecutor: executeJumpCommand and the child processes              *)

\* ---- bounds of the executor specification ----
\* the concurrent callers of executeJumpCommand
Callers == {1, 2}
MaxExecTime == 5200
ExecTickStep == 2600

Platforms == {"win32", "darwin", "linux", "freebsd"}
\* the darwin and the linux builders and launch paths are the same code
ExecPlatforms == {"win32", "darwin", "freebsd"}

EditorA == [id |-> <<"e", "1">>, path |-> <<"/", "a">>]
EditorBlankPath == [id |-> <<"e", "2">>, path |-> <<" ">>]
EditorEmptyPath == [id |-> <<"e", "3">>, path |-> << >>]

FileX == <<"/", "x">>
FileY == <<"/", "y">>

MkParams(e, f, n) == [editor |-> e, filePath |-> f, lineNumber |-> n]

ValidParams == {MkParams(EditorA, FileX, 1), MkParams(EditorA, FileY, 42)}

InvalidParams ==
    {MkParams(EditorBlankPath, FileX, 1), MkParams(EditorEmptyPath, FileX, 1),
     MkParams(EditorA, << >>, 1), MkParams(EditorA, <<" ", "\t">>, 1),
     MkParams(EditorA, FileX, 0)}

\* params without an editor: reading params.editor.name throws inside the try block
NoEditorParams == {MkParams(Undefined, FileX, 1)}

ExecParams == ValidParams \cup InvalidParams \cup NoEditorParams

NoResult == [status |-> "pending"]

IdleCall ==
    [pc |-> "idle", params |-> Undefined, startTime |-> 0, pathExists |-> FALSE,
     command |-> << >>, child |-> 0, graceDue |-> -1, result |-> NoResult,
     existedAtCall |-> FALSE, fx |-> {}, handlerCalls |-> 0]

ExecInit ==
    /\ platform \in ExecPlatforms
    /\ fsExists \in SUBSET {EditorA.path}
    /\ errorHandler = "none"
    /\ calls = [c \in Callers |-> IdleCall]
    /\ children = << >>
    /\ runningProcesses = << >>
    /\ executionStats = [totalExecutions |-> 0, successfulExecutions |-> 0, failedExecutions |-> 0,
                         totalExecutionTime |-> 0, averageExecutionTime |-> <<0, 1>>]
    /\ commandBuilders = AllBuilders

\* averageExecutionTime is kept as the pair <<dividend, divisor>> of the division
updateExecutionStats(stats, success, executionTime) ==
    [stats EXCEPT
        !.successfulExecutions = IF success THEN @ + 1 ELSE @,
        !.failedExecutions = IF success THEN @ ELSE @ + 1,
        !.totalExecutionTime = @ + executionTime,
        !.averageExecutionTime = <<stats.totalExecutionTime + executionTime, stats.totalExecutions>>]

\* variant of the catch block that does not call the error handler
CatchBlock_SkipHandler(rec, err) ==
    [rec EXCEPT
        !.pc = "done",
        !.result = [status |-> "resolved", success |-> FALSE, error |-> err,
                    command |-> << >>, executionTime |-> now - rec.startTime,
                    processId |-> 0]]

\* the catch block of executeJumpCommand: the call record after it ran
CatchBlock(rec, err) ==
    [rec EXCEPT
        !.pc = "done",
        !.handlerCalls = IF errorHandler = "none" THEN @ ELSE @ + 1,
        !.result = IF errorHandler = "throws"
                   THEN [status |-> "rejected"]
                   ELSE [status |-> "resolved", success |-> FALSE, error |-> err,
                         command |-> << >>, executionTime |-> now - rec.startTime,
                         processId |-> 0]]

\* the tail of the try block of executeJumpCommand, after executeCommand resolved
ReturnSuccess(rec, pid) ==
    [rec EXCEPT
        !.pc = "done",
        !.result = [status |-> "resolved", success |-> TRUE, error |-> "",
                    command |-> rec.command, executionTime |-> now - rec.startTime,
                    processId |-> pid]]

\* the wrapper the Cacheable decorator puts around verifyEditorPath
verifyEditorPath(cm, editorPath) ==
    LET key == PathExistsKey(editorPath)
        r == cacheGet(cm, key, now)
        exists == editorPath \in fsExists
    IN  IF r.value # Undefined
        THEN [cm |-> r.cm, value |-> r.value.v, fx |-> {"cacheRead"}]
        ELSE [cm |-> cacheSet(r.cm, key, [kind |-> "promise", v |-> exists], PathExistsCacheTtl, now),
              value |-> exists, fx |-> {"cacheRead", "existsSync", "cacheWrite"}]

\* no continuation of an awaited, already settled promise is waiting to run
NoMicrotaskPending == \A c \in Callers : calls[c].pc # "awaitVerify"

\* executeJumpCommand up to its first await
ExecStart(c, params) ==
    /\ calls[c].pc = "idle"
    /\ \A d \in {e \in Callers : e < c} : calls[d].pc # "idle"
    /\ LET rec0 == [calls[c] EXCEPT !.params = params, !.startTime = now,
                        !.existedAtCall = (params.editor # Undefined /\ params.editor.path \in fsExists)]
           stats0 == [executionStats EXCEPT !.totalExecutions = @ + 1]
           v == IF params.editor = Undefined THEN "TypeError" ELSE validateExecutionParams(params)
       IN  IF v # ValidationOk
           THEN /\ calls' = [calls EXCEPT ![c] = CatchBlock(rec0, v)]
                /\ executionStats' = updateExecutionStats(stats0, FALSE, 0)
                /\ UNCHANGED cacheVars
           ELSE LET r == verifyEditorPath(CM, params.editor.path)
                IN  /\ calls' = [calls EXCEPT ![c] = [rec0 EXCEPT !.pc = "awaitVerify",
                                                         !.pathExists = r.value, !.fx = r.fx]]
                    /\ executionStats' = stats0
                    /\ StoreCM(r.cm)
                    /\ UNCHANGED shadow
    /\ UNCHANGED <<now, platform, fsExists, errorHandler, children, runningProcesses,
                   commandBuilders, regVars, debVars>>

Truthy(value) == value # Undefined /\ value.s # << >>

\* buildCommand: returns [cm, ok, command, fx]
buildCommand(cm, params) ==
    LET cacheKey == generateCommandCacheKey(params, platform)
        r == cacheGet(cm, cacheKey, now)
        builder == IF platform \in commandBuilders THEN platform
                   ELSE IF "default" \in commandBuilders THEN "default" ELSE "none"
        command == RunBuilder(builder, params)
    IN  IF Truthy(r.value)
        THEN [cm |-> r.cm, ok |-> TRUE, command |-> r.value.s, fx |-> {"cacheRead"}]
        ELSE IF builder = "none"
        THEN [cm |-> r.cm, ok |-> FALSE, command |-> << >>, fx |-> {"cacheRead"}]
        ELSE [cm |-> cacheSet(r.cm, cacheKey, [kind |-> "str", s |-> command], CommandCacheTtl, now),
              ok |-> TRUE, command |-> command, fx |-> {"cacheRead", "build", "cacheWrite"}]

processKeyOf(params) == params.editor.id \o <<"_">> \o NumStr(now)

\* the outcomes of exec / spawn: a child that will emit spawn, a child that will
\* emit error, or a synchronous throw
LaunchOutcomes == {"spawn", "error", "throw"}

\* executeJumpCommand from the resumption after verifyEditorPath to the await of executeCommand
ExecAfterVerify(c, outcome) ==
    /\ calls[c].pc = "awaitVerify"
    /\ \A d \in {e \in Callers : e < c} : calls[d].pc # "awaitVerify"
    /\ LET rec == calls[c]
           b == buildCommand(CM, rec.params)
           isWindows == platform = "win32"
           viaShell == isWindows \/ containsShellOperators(b.command)
           parsed == parseCommandForUnix(b.command)
           fail(r, err) ==
               /\ calls' = [calls EXCEPT ![c] = CatchBlock(r, err)]
               /\ executionStats' = updateExecutionStats(executionStats, FALSE, now - rec.startTime)
               /\ UNCHANGED <<children, runningProcesses>>
           rec1 == [rec EXCEPT !.fx = @ \cup b.fx, !.command = b.command]
           key == processKeyOf(rec.params)
           idx == Len(children) + 1
       IN  IF ~rec.pathExists
           THEN fail(rec, "editor path does not exist") /\ UNCHANGED cacheVars
           ELSE /\ StoreCM(b.cm)
                /\ UNCHANGED shadow
                /\ IF ~b.ok THEN fail(rec1, "unsupported platform")
                   ELSE IF b.command = << >> THEN fail(rec1, "cannot build a valid command")
                   ELSE IF ~viaShell /\ ~parsed.ok THEN fail(rec1, "invalid command format")
                   ELSE IF outcome = "throw" THEN fail(rec1, "launch threw")
                   ELSE /\ children' = Append(children,
                               [call |-> c, key |-> key, command |-> b.command, shell |-> viaShell,
                                program |-> IF viaShell THEN << >> ELSE parsed.program,
                                arguments |-> IF viaShell THEN << >> ELSE parsed.arguments,
                                unref |-> ~viaShell,
                                pid |-> IF outcome = "spawn" THEN idx ELSE 0,
                                state |-> "starting", willFail |-> outcome = "error",
                                killed |-> FALSE, killCalls |-> 0, swept |-> FALSE])
                        /\ runningProcesses' = MapSet(runningProcesses, key, [key |-> key, child |-> idx])
                        /\ calls' = [calls EXCEPT ![c] =
                               [rec1 EXCEPT !.pc = "awaitLaunch", !.child = idx,
                                            !.fx = @ \cup {"launch"},
                                            !.graceDue = IF isWindows THEN now + WindowsGraceDelay ELSE -1]]
                        /\ UNCHANGED executionStats
    /\ UNCHANGED <<now, platform, fsExists, errorHandler, commandBuilders, regVars, debVars>>

\* executeCommand's promise resolved: executeJumpCommand runs to its return
Resolve(c, pid) ==
    IF calls[c].pc = "awaitLaunch"
    THEN /\ calls' = [calls EXCEPT ![c] = ReturnSuccess(calls[c], pid)]
         /\ executionStats' = updateExecutionStats(executionStats, TRUE, now - calls[c].startTime)
    ELSE UNCHANGED <<calls, executionStats>>

\* executeCommand's promise rejected: executeJumpCommand runs its catch block
Reject(c, err) ==
    IF calls[c].pc = "awaitLaunch"
    THEN /\ calls' = [calls EXCEPT ![c] = CatchBlock(calls[c], err)]
         /\ executionStats' = updateExecutionStats(executionStats, FALSE, now - calls[c].startTime)
    ELSE UNCHANGED <<calls, executionStats>>

\* childProcess.on('spawn')
ChildSpawn(k) ==
    /\ NoMicrotaskPending
    /\ children[k].state = "starting" /\ ~children[k].willFail
    /\ children' = [children EXCEPT ![k].state = "running"]
    /\ Resolve(children[k].call, children[k].pid)
    /\ UNCHANGED <<now, cacheVars, platform, fsExists, errorHandler, runningProcesses,
                   commandBuilders, regVars, debVars>>

\* childProcess.on('error')
ChildError(k) ==
    /\ NoMicrotaskPending
    /\ children[k].state = "starting" /\ children[k].willFail
    /\ children' = [children EXCEPT ![k].state = "failed"]
    /\ runningProcesses' = MapDelete(runningProcesses, children[k].key)
    /\ Reject(children[k].call, "launch error")
    /\ UNCHANGED <<now, cacheVars, platform, fsExists, errorHandler, commandBuilders, regVars, debVars>>

\* childProcess.on('exit')
ChildExit(k) ==
    /\ NoMicrotaskPending
    /\ children[k].state \in {"running", "failed"}
    /\ children' = [children EXCEPT ![k].state = "exited"]
    /\ runningProcesses' = MapDelete(runningProcesses, children[k].key)
    /\ UNCHANGED <<now, cacheVars, platform, fsExists, errorHandler, calls, executionStats,
                   commandBuilders, regVars, debVars>>

\* the 100 ms timer executeCommand arms on Windows
\* an error event of a child that has already emitted spawn
ChildLateError(k) ==
    /\ NoMicrotaskPending
    /\ children[k].state = "running"
    /\ children' = [children EXCEPT ![k].state = "failed"]
    /\ runningProcesses' = MapDelete(runningProcesses, children[k].key)
    /\ Reject(children[k].call, "late error")
    /\ UNCHANGED <<now, cacheVars, platform, fsExists, errorHandler, commandBuilders, regVars, debVars>>

WindowsGraceTimer(c) ==
    /\ NoMicrotaskPending
    /\ calls[c].pc = "awaitLaunch"
    /\ calls[c].graceDue >= 0 /\ now >= calls[c].graceDue
    /\ Resolve(c, children[calls[c].child].pid)
    /\ UNCHANGED <<now, cacheVars, platform, fsExists, errorHandler, children, runningProcesses,
                   commandBuilders, regVars, debVars>>

\* the host installs its handler while it wires the executor up, before the first jump
setErrorHandler(handler) ==
    /\ \A c \in Callers : calls[c].pc = "idle"
    /\ errorHandler # handler
    /\ errorHandler' = handler
    /\ UNCHANGED <<now, cacheVars, platform, fsExists, calls, children, runningProcesses,
                   executionStats, commandBuilders, regVars, debVars>>

\* the children the live-process table refers to
Tabled == {runningProcesses[i].child : i \in 1..Len(runningProcesses)}

\* killAllProcesses(): kill() throws for the children in throwers
killAllProcesses(throwers) ==
    /\ children' =
           [k \in 1..Len(children) |->
               IF k \in Tabled
               THEN [children[k] EXCEPT
                        !.swept = TRUE,
                        !.killCalls = IF children[k].killed THEN @ ELSE @ + 1,
                        !.killed = @ \/ k \notin throwers]
               ELSE children[k]]
    /\ runningProcesses' = << >>
    /\ UNCHANGED <<now, cacheVars, platform, fsExists, errorHandler, calls, executionStats,
                   commandBuilders, regVars, debVars>>

\* executeJumpCommand called with parameters that pass validation
ExecStartValid(c) == \E params \in ValidParams : ExecStart(c, params)

\* the environment creates or removes the editor executable
FsChange ==
    /\ fsExists' = IF EditorA.path \in fsExists THEN {} ELSE {EditorA.path}
    /\ UNCHANGED <<now, cacheVars, platform, errorHandler, calls, children, runningProcesses,
                   executionStats, commandBuilders, regVars, debVars>>

ExecTick ==
    /\ now + ExecTickStep <= MaxExecTime
    /\ now' = now + ExecTickStep
    /\ UNCHANGED <<cacheVars, execVars, regVars, debVars>>

----------------------------------------------------------------------------
(* ConfigManager: the editor registry                                       *)

\* ---- bounds of the registry specification ----
MaxIds == 3
MaxRegTime == 1

PathP == <<"/", "p">>
PathQ == <<"/", "q">>
NameN == <<"n">>

\* "absent" marks a field the caller did not pass; isDefault arrives as "true" or "false"
Absent == "absent"

\* the arguments of addEditor
AddConfigs ==
    {[name |-> n, path |-> p, isDefault |-> d] :
        n \in {NameN, << >>}, p \in {PathP, PathQ, <<" ">>}, d \in {Absent, "true", "false"}}

\* the updates argument of updateEditor (name and path are strings when present)
UpdateArgs ==
    {[name |-> n, path |-> p, isDefault |-> d] :
        n \in {<<Absent>>, << >>}, p \in {<<Absent>>, PathP, PathQ}, d \in {Absent, "true", "false"}}

\* a string field was passed
Given(field) == field # <<Absent>>

\* validateEditorConfig(config).isValid
validateEditorConfig(cfg) == ~TrimIsEmpty(cfg.name) /\ ~TrimIsEmpty(cfg.path)

findIndex(eds, editorId) ==
    IF \E i \in 1..Len(eds) : eds[i].id = editorId
    THEN CHOOSE i \in 1..Len(eds) : eds[i].id = editorId /\ \A j \in 1..(i - 1) : eds[j].id # editorId
    ELSE 0

\* Each operation reads the editor list (a private copy), computes the list it will
\* write and awaits the settings write.  The operators return
\* [ok, editors]: ok = FALSE when the operation threw before the write.

addEditorResult(eds, cfg, id, t) ==
    IF ~validateEditorConfig(cfg) THEN [ok |-> FALSE, editors |-> eds]
    ELSE IF \E i \in 1..Len(eds) : eds[i].path = cfg.path THEN [ok |-> FALSE, editors |-> eds]
    ELSE LET cleared == IF cfg.isDefault = "true"
                        THEN [i \in 1..Len(eds) |-> [eds[i] EXCEPT !.isDefault = FALSE]]
                        ELSE eds
             shouldBeDefault == IF Len(eds) = 0 THEN TRUE ELSE cfg.isDefault = "true"
             newEditor == [id |-> id, name |-> cfg.name, path |-> cfg.path,
                           isDefault |-> shouldBeDefault, createdAt |-> t, updatedAt |-> t]
         IN  [ok |-> TRUE, editors |-> Append(cleared, newEditor)]

updateEditorResult(eds, editorId, updates, t) ==
    LET editorIndex == findIndex(eds, editorId)
        originalEditor == eds[editorIndex]
        updatedEditor ==
            [id |-> originalEditor.id,
             name |-> IF Given(updates.name) THEN updates.name ELSE originalEditor.name,
             path |-> IF Given(updates.path) THEN updates.path ELSE originalEditor.path,
             isDefault |-> IF updates.isDefault # Absent THEN updates.isDefault = "true"
                           ELSE originalEditor.isDefault,
             createdAt |-> originalEditor.createdAt,
             updatedAt |-> t]
    IN  IF editorIndex = 0 THEN [ok |-> FALSE, editors |-> eds]
        ELSE IF ~validateEditorConfig(updatedEditor) THEN [ok |-> FALSE, editors |-> eds]
        ELSE [ok |-> TRUE,
              editors |-> [i \in 1..Len(eds) |->
                             IF i = editorIndex THEN updatedEditor
                             ELSE IF updatedEditor.isDefault /\ ~originalEditor.isDefault
                                  THEN [eds[i] EXCEPT !.isDefault = FALSE]
                                  ELSE eds[i]]]

deleteEditorResult(eds, editorId) ==
    LET editorIndex == findIndex(eds, editorId)
        deletedEditor == eds[editorIndex]
        updatedEditors == SelectSeq(eds, LAMBDA e : e.id # editorId)
    IN  IF editorIndex = 0 THEN [ok |-> FALSE, editors |-> eds]
        ELSE IF deletedEditor.isDefault /\ Len(updatedEditors) > 0
        THEN [ok |-> TRUE, editors |-> [updatedEditors EXCEPT ![1].isDefault = TRUE]]
        ELSE [ok |-> TRUE, editors |-> updatedEditors]

setDefaultEditorResult(eds, editorId, t) ==
    IF findIndex(eds, editorId) = 0 THEN [ok |-> FALSE, editors |-> eds]
    ELSE [ok |-> TRUE,
          editors |-> [i \in 1..Len(eds) |->
                         IF eds[i].id = editorId
                         THEN [eds[i] EXCEPT !.isDefault = TRUE, !.updatedAt = t]
                         ELSE [eds[i] EXCEPT !.isDefault = FALSE]]]

\* no operation awaits its write; round holds the operations that returned since the
\* registry was last at rest, added and deleted the ids of the editors that addEditor
\* returned and that deleteEditor removed, begun counts the operations that reached
\* their write
InFlightStart == [pending |-> {}, round |-> << >>, added |-> {}, deleted |-> {}, begun |-> 0]

\* the setting has never been written
SettingsStart == [debounceTime |-> Undefined, lastUpdate |-> [op |-> "none"]]

RegInit ==
    /\ editors = << >>
    /\ nextId = 1
    /\ lastRegOp = [op |-> "none"]
    /\ inFlight = InFlightStart
    /\ settings = SettingsStart

\* the operations applied one after another: the settings write is awaited before
\* the next operation starts
AddEditor ==
    \E cfg \in AddConfigs :
        LET r == addEditorResult(editors, cfg, nextId, now)
        IN  /\ nextId <= MaxIds
            /\ editors' = r.editors
            /\ nextId' = IF r.ok THEN nextId + 1 ELSE nextId
            /\ lastRegOp' = [op |-> "add", ok |-> r.ok]
            /\ UNCHANGED <<now, inFlight, settings, cacheVars, execVars, debVars>>

UpdateEditor ==
    \E editorId \in 1..MaxIds, updates \in UpdateArgs :
        LET r == updateEditorResult(editors, editorId, updates, now)
        IN  /\ editors' = r.editors
            /\ lastRegOp' = [op |-> "update", ok |-> r.ok]
            /\ UNCHANGED <<now, nextId, inFlight, settings, cacheVars, execVars, debVars>>

DeleteEditor ==
    \E editorId \in 1..MaxIds :
        LET r == deleteEditorResult(editors, editorId)
        IN  /\ editors' = r.editors
            /\ lastRegOp' = [op |-> "delete", ok |-> r.ok]
            /\ UNCHANGED <<now, nextId, inFlight, settings, cacheVars, execVars, debVars>>

SetDefaultEditor ==
    \E editorId \in 1..MaxIds :
        LET r == setDefaultEditorResult(editors, editorId, now)
        IN  /\ editors' = r.editors
            /\ lastRegOp' = [op |-> "setDefault", ok |-> r.ok]
            /\ UNCHANGED <<now, nextId, inFlight, settings, cacheVars, execVars, debVars>>

RegTick ==
    /\ now < MaxRegTime
    /\ now' = now + 1
    /\ UNCHANGED <<cacheVars, execVars, regVars, debVars>>

\* ---- the debounce time setting ----
\* ConfigManager.DEFAULT_CONFIG.DEBOUNCE_TIME
DefaultDebounceTime == 150
\* the largest time updateDebounceTime accepts
MaxDebounceTime == 5000
\* the times passed to updateDebounceTime: within DebounceMargin of 0 and of
\* MaxDebounceTime, and the default
DebounceMargin == 2
DebounceTimes ==
    ((0 - DebounceMargin)..DebounceMargin)
        \cup ((MaxDebounceTime - DebounceMargin)..(MaxDebounceTime + DebounceMargin))
        \cup {DefaultDebounceTime}

\* getDebounceTime(): time || DEFAULT_CONFIG.DEBOUNCE_TIME, where undefined and 0 are falsy
getDebounceTime(st) ==
    IF st.debounceTime = Undefined \/ st.debounceTime.n = 0
    THEN DefaultDebounceTime
    ELSE st.debounceTime.n

\* updateDebounceTime(time), up to its return; lastUpdate keeps the argument, the value
\* returned and the setting as it was before
UpdateDebounceTime ==
    \E time \in DebounceTimes :
        LET ok == ~(time < 0 \/ time > MaxDebounceTime)
        IN  /\ settings' = [debounceTime |-> IF ok THEN [kind |-> "number", n |-> time]
                                             ELSE settings.debounceTime,
                            lastUpdate |-> [op |-> "update", time |-> time, ok |-> ok,
                                            before |-> settings.debounceTime]]
            /\ UNCHANGED <<now, editors, nextId, lastRegOp, inFlight, cacheVars, execVars, debVars>>

\* ---- the operations as the webview starts them: a message handler runs an operation
\* up to its await of the settings write, and the next message is handled before the
\* write has completed ----
MaxInFlight == 2
MaxFlightOps == 3

NoUpdates == [name |-> <<Absent>>, path |-> <<Absent>>, isDefault |-> Absent]

\* an operation has read the list and computed r; when it did not throw it awaits
\* the write of r.editors, otherwise it returns its failure value at once
FlightBegin(kind, id, updates, r) ==
    /\ Cardinality(inFlight.pending) < MaxInFlight
    /\ IF r.ok
       THEN /\ inFlight.begun < MaxFlightOps
            /\ inFlight' = [inFlight EXCEPT
                               !.begun = @ + 1,
                               !.pending = @ \cup {[kind |-> kind, id |-> id,
                                                    updates |-> updates, write |-> r.editors]},
                               !.round = IF inFlight.pending = {} THEN << >> ELSE @]
            /\ UNCHANGED lastRegOp
       ELSE /\ lastRegOp' = [op |-> kind, ok |-> FALSE]
            /\ UNCHANGED inFlight
    /\ UNCHANGED <<now, editors, settings, cacheVars, execVars, debVars>>

FlightAdd ==
    \E cfg \in AddConfigs :
        LET r == addEditorResult(editors, cfg, nextId, now)
        IN  /\ nextId <= MaxIds
            /\ FlightBegin("add", nextId, [NoUpdates EXCEPT !.isDefault = cfg.isDefault], r)
            /\ nextId' = IF r.ok THEN nextId + 1 ELSE nextId

FlightUpdate ==
    \E editorId \in 1..MaxIds, updates \in UpdateArgs :
        /\ FlightBegin("update", editorId, updates,
                       updateEditorResult(editors, editorId, updates, now))
        /\ UNCHANGED nextId

FlightDelete ==
    \E editorId \in 1..MaxIds :
        /\ FlightBegin("delete", editorId, NoUpdates, deleteEditorResult(editors, editorId))
        /\ UNCHANGED nextId

FlightSetDefault ==
    \E editorId \in 1..MaxIds :
        /\ FlightBegin("setDefault", editorId, NoUpdates,
                       setDefaultEditorResult(editors, editorId, now))
        /\ UNCHANGED nextId

\* config.update resolves: the setting holds the list the operation computed, and the
\* operation returns its success value
FlightWriteDone ==
    \E op \in inFlight.pending :
        /\ editors' = op.write
        /\ inFlight' = [begun |-> inFlight.begun,
                        pending |-> inFlight.pending \ {op},
                        round |-> Append(inFlight.round,
                                         [kind |-> op.kind, id |-> op.id, updates |-> op.updates]),
                        added |-> IF op.kind = "add" THEN inFlight.added \cup {op.id}
                                  ELSE inFlight.added,
                        deleted |-> IF op.kind = "delete" THEN inFlight.deleted \cup {op.id}
                                    ELSE inFlight.deleted]
        /\ lastRegOp' = [op |-> op.kind, ok |-> TRUE]
        /\ UNCHANGED <<now, nextId, settings, cacheVars, execVars, debVars>>

----------------------------------------------------------------------------
(* DebounceUtils.debounce                                                   *)
(* The closure variables of one debounced wrapper are the variables         *)
(* timerId, lastCallTime, lastInvokeTime and lastArgs; maxTimerId is never   *)
(* assigned a timer.  timers holds every setTimeout timer that has neither   *)
(* fired nor been cleared, whether or not timerId still refers to it.        *)

\* ---- bounds of the debounce specification ----
MaxDebTime == 12
MaxDebCalls == 6
PlainWait == 2
PressedWait == 4
PressedMaxWait == 5

\* Date.now() when the wrapper is created: far above any wait, as lastInvokeTime starts at 0
DebEpoch == 100

\* the wrappers under study: debounce(f, wait, {leading: false, trailing: true}) and
\* debounce(f, wait, {maxWait}) with the default leading and trailing
DebConfigs ==
    {[wait |-> PlainWait, leading |-> FALSE, trailing |-> TRUE, maxWait |-> -1],
     [wait |-> PressedWait, leading |-> FALSE, trailing |-> TRUE, maxWait |-> PressedMaxWait]}

\* ---- bounds of the specification over the leading / trailing options ----
OptWait == 2
OptMaxWait == 3

\* debounce(f, wait, {leading, trailing, maxWait}) for every leading / trailing pair, and
\* throttle(f, wait, {leading, trailing}), which is debounce with maxWait: wait
OptConfigs ==
    {[wait |-> OptWait, leading |-> l, trailing |-> t, maxWait |-> m] :
        l \in BOOLEAN, t \in BOOLEAN, m \in {OptMaxWait, OptWait}}

\* a value of the closure variables
DS == [timerId |-> timerId, timers |-> timers, nextTimer |-> nextTimer,
       lastCallTime |-> lastCallTime, lastInvokeTime |-> lastInvokeTime,
       lastArgs |-> lastArgs, result |-> result, invoked |-> << >>]

\* func: the value it returns for args
FuncResult(args) == 100 + args

\* variant of invokeFunc that leaves lastArgs in place
invokeFunc_KeepArgs(ds, time) ==
    [ds EXCEPT !.invoked = Append(@, <<time, ds.lastArgs>>),
               !.lastInvokeTime = time,
               !.result = FuncResult(ds.lastArgs)]

\* invokeFunc(time): invoked collects <<time, args>> of the calls of func
invokeFunc(ds, time) ==
    [ds EXCEPT !.invoked = Append(@, <<time, ds.lastArgs>>),
               !.lastArgs = 0,
               !.lastInvokeTime = time,
               !.result = FuncResult(ds.lastArgs)]

\* timerId = startTimer(timerExpired, delay); setTimeout raises a delay below 1 ms to 1 ms
startTimer(ds, delay, t) ==
    [ds EXCEPT !.timers = @ \cup {[id |-> ds.nextTimer, due |-> t + (IF delay < 1 THEN 1 ELSE delay)]},
               !.timerId = ds.nextTimer,
               !.nextTimer = @ + 1]

\* variant of leadingEdge that calls func whatever the leading option says
leadingEdge_AlwaysInvoke(ds, time) ==
    invokeFunc(startTimer([ds EXCEPT !.lastInvokeTime = time], opts.wait, time), time)

leadingEdge(ds, time) ==
    LET ds1 == startTimer([ds EXCEPT !.lastInvokeTime = time], opts.wait, time)
    IN  IF opts.leading THEN invokeFunc(ds1, time) ELSE ds1

remainingWait(ds, time) ==
    LET timeSinceLastCall == time - ds.lastCallTime
        timeSinceLastInvoke == time - ds.lastInvokeTime
        timeWaiting == opts.wait - timeSinceLastCall
    IN  IF opts.maxWait # -1
        THEN Min2(timeWaiting, opts.maxWait - timeSinceLastInvoke)
        ELSE timeWaiting

\* variant of shouldInvoke without the clause for a clock that reads earlier than the last call
shouldInvoke_NoSkewClause(ds, time) ==
    LET timeSinceLastCall == time - ds.lastCallTime
        timeSinceLastInvoke == time - ds.lastInvokeTime
    IN  \/ ds.lastCallTime = -1
        \/ timeSinceLastCall >= opts.wait
        \/ (opts.maxWait # -1 /\ timeSinceLastInvoke >= opts.maxWait)

shouldInvoke(ds, time) ==
    LET timeSinceLastCall == time - ds.lastCallTime
        timeSinceLastInvoke == time - ds.lastInvokeTime
    IN  \/ ds.lastCallTime = -1
        \/ timeSinceLastCall >= opts.wait
        \/ timeSinceLastCall < 0
        \/ (opts.maxWait # -1 /\ timeSinceLastInvoke >= opts.maxWait)

\* variant of trailingEdge that does not look at lastArgs
trailingEdge_IgnoreLastArgs(ds, time) ==
    LET ds1 == [ds EXCEPT !.timerId = 0]
    IN  IF opts.trailing
        THEN invokeFunc(ds1, time)
        ELSE [ds1 EXCEPT !.lastArgs = 0]

trailingEdge(ds, time) ==
    LET ds1 == [ds EXCEPT !.timerId = 0]
    IN  IF opts.trailing /\ ds1.lastArgs # 0
        THEN invokeFunc(ds1, time)
        ELSE [ds1 EXCEPT !.lastArgs = 0]

\* variant of timerExpired that takes every expiry for the trailing edge
timerExpired_NoRecheck(ds, time) ==
    trailingEdge(ds, time)

timerExpired(ds, time) ==
    IF shouldInvoke(ds, time)
    THEN trailingEdge(ds, time)
    ELSE startTimer(ds, remainingWait(ds, time), time)

\* the wrapper itself, called with args at time
debounced(ds, args, time) ==
    LET isInvoking == shouldInvoke(ds, time)
        ds1 == [ds EXCEPT !.lastArgs = args, !.lastCallTime = time]
    IN  IF isInvoking /\ ds1.timerId = 0
        THEN leadingEdge(ds1, ds1.lastCallTime)
        ELSE IF isInvoking /\ opts.maxWait # -1
        THEN invokeFunc(startTimer(ds1, opts.wait, time), ds1.lastCallTime)
        ELSE IF ds1.timerId = 0
        THEN startTimer(ds1, opts.wait, time)
        ELSE ds1

StoreDS(ds) ==
    /\ timerId' = ds.timerId
    /\ timers' = ds.timers
    /\ nextTimer' = ds.nextTimer
    /\ lastCallTime' = ds.lastCallTime
    /\ lastInvokeTime' = ds.lastInvokeTime
    /\ lastArgs' = ds.lastArgs
    /\ result' = ds.result

\* variant of cancel that leaves lastArgs in place
cancel_KeepArgs(ds) ==
    [ds EXCEPT !.timers = {tm \in @ : tm.id # ds.timerId},
               !.lastInvokeTime = 0,
               !.lastCallTime = -1,
               !.timerId = 0]

\* cancel()
cancel(ds) ==
    [ds EXCEPT !.timers = {tm \in @ : tm.id # ds.timerId},
               !.lastInvokeTime = 0,
               !.lastArgs = 0,
               !.lastCallTime = -1,
               !.timerId = 0]

\* flush(): the closure after it, and the value it returns
flush(ds, time) == IF ds.timerId = 0 THEN ds ELSE trailingEdge(ds, time)

flushReturn(ds, time) == flush(ds, time).result

\* pending()
pending(ds) == ds.timerId # 0

\* the timers run in the order they come due, with no further call, cancel or flush:
\* whether one of them invokes func
RECURSIVE TimersInvoke(_, _)
TimersInvoke(ds, t) ==
    IF ds.timers = {} THEN FALSE
    ELSE LET tm == CHOOSE x \in ds.timers :
                       \A y \in ds.timers : x.due < y.due \/ (x.due = y.due /\ x.id <= y.id)
             t1 == IF tm.due > t THEN tm.due ELSE t
             ds1 == timerExpired([ds EXCEPT !.timers = @ \ {tm}, !.invoked = << >>], t1)
         IN  ds1.invoked # << >> \/ TimersInvoke(ds1, t1)

NoFlush == [at |-> -1, n |-> 0]

NoCancel == [mark |-> 0, n |-> 0]

\* what the history variables record of an operation other than flush and cancel
Witnessed(op, ds) ==
    /\ lastFlush' = IF lastFlush.at = -1 THEN lastFlush
                    ELSE [lastFlush EXCEPT !.later = @ \o ds.invoked,
                                           !.fired = @ \/ op = "timer"]
    /\ afterCancel' = IF afterCancel.mark = 0 THEN afterCancel
                      ELSE [afterCancel EXCEPT !.quiet = @ /\ op # "call",
                                               !.invs = @ \o ds.invoked,
                                               !.fired = @ \/ op = "timer"]

\* the closure right after debounce(func, wait, options) returns
\* the other wrappers of DebounceUtils before their first call
RateLimiterStart == [maxCalls |-> 0, timeWindow |-> 0, calls |-> << >>, log |-> << >>]
RetrierStart == [maxRetries |-> 0, retryDelay |-> 0, pc |-> "idle", i |-> 0, lastError |-> 0,
                 due |-> -1, attempts |-> << >>, outcome |-> [status |-> "pending"]]
BatcherStart == [maxBatchSize |-> 1, delay |-> 0, items |-> << >>, timeoutId |-> 0,
                 timers |-> {}, nextTimer |-> 1, added |-> 0, delivered |-> << >>,
                 addedAt |-> << >>, throws |-> FALSE, outcomes |-> << >>]
OncerStart == [called |-> FALSE, result |-> 0, invocations |-> 0, log |-> << >>]

\* the extension after activation: no click stored, no command run yet
ExtensionStart ==
    [lastClickContext |-> Undefined, lastClickTime |-> 0]

\* a MouseListener after its constructor
MouseListenerStart ==
    [config |-> [debounceTime |-> DefaultDebounceTime, enabled |-> TRUE],
     debounceTimer |-> Undefined, isProcessing |-> FALSE, jumpCallback |-> FALSE,
     eventListeners |-> 0,
     eventStats |-> [totalEvents |-> 0, validEvents |-> 0, ignoredEvents |-> 0, errorEvents |-> 0],
     lastQualifying |-> Undefined, invoked |-> << >>]

\* the period of the cleanup interval timer
CleanupInterval == 30000

\* a CacheManager after its constructor, created at time 0
CacheLifeStart == [cleanupTimer |-> CleanupInterval, lowered |-> FALSE]

HostIdle ==
    /\ extension = ExtensionStart /\ mouseListener = MouseListenerStart
    /\ cacheLife = CacheLifeStart

UtilIdle ==
    /\ rateLimiter = RateLimiterStart
    /\ retrier = RetrierStart
    /\ batcher = BatcherStart
    /\ oncer = OncerStart

\* a debounce wrapper before its first call
DebounceStart ==
    /\ timerId = 0
    /\ timers = {}
    /\ nextTimer = 1
    /\ lastCallTime = -1
    /\ lastInvokeTime = 0
    /\ lastArgs = 0
    /\ nextArg = 1
    /\ burst = [start |-> -1, invs |-> << >>, all |-> << >>]
    /\ prevBurst = [start |-> -1]
    /\ deferred = 0
    /\ result = 0
    /\ lastFlush = NoFlush
    /\ afterCancel = NoCancel
    /\ skews = 0

DebStart == DebounceStart /\ UtilIdle /\ HostIdle

DebInit == opts \in DebConfigs /\ DebStart

\* the arguments of the invocations invs
ArgsOf(invs) == [k \in 1..Len(invs) |-> invs[k][2]]

\* the time of the latest invocation of func in the current burst, or the burst's start
LastMark == IF burst.invs = << >> THEN burst.start ELSE burst.invs[Len(burst.invs)][1]

\* a call of the wrapper; the n-th call passes n as its argument
DebCall ==
    /\ nextArg <= MaxDebCalls
    /\ LET ds == debounced(DS, nextArg, now)
           continues == lastCallTime # -1 /\ now - lastCallTime < opts.wait
       IN  /\ StoreDS(ds)
           /\ Witnessed("call", ds)
           /\ nextArg' = nextArg + 1
           /\ IF continues
              THEN /\ burst' = [burst EXCEPT !.invs = @ \o ds.invoked, !.all = @ \o ArgsOf(ds.invoked)]
                   /\ deferred' = now - LastMark
                   /\ UNCHANGED prevBurst
              ELSE /\ burst' = [start |-> now, invs |-> ds.invoked,
                                 all |-> burst.all \o ArgsOf(ds.invoked)]
                   /\ deferred' = 0
                   /\ prevBurst' = IF lastCallTime = -1 THEN prevBurst
                                   ELSE [start |-> burst.start, final |-> lastCallTime,
                                         finalArgs |-> nextArg - 1, invs |-> burst.invs,
                                         endedAt |-> now, timerDone |-> timerId = 0]
    /\ UNCHANGED <<now, opts, skews, cacheVars, execVars, regVars, utilVars, hostVars>>

\* a setTimeout timer comes due and runs timerExpired
DebTimerFire ==
    \E tm \in timers :
        /\ tm.due <= now
        /\ LET ds == timerExpired([DS EXCEPT !.timers = @ \ {tm}], now)
           IN  /\ StoreDS(ds)
               /\ Witnessed("timer", ds)
               /\ burst' = [burst EXCEPT !.invs = @ \o ds.invoked, !.all = @ \o ArgsOf(ds.invoked)]
        /\ UNCHANGED <<now, opts, nextArg, prevBurst, deferred, skews, cacheVars, execVars, regVars, utilVars, hostVars>>

\* time passes; a timer fires in the millisecond it is due
DebTick ==
    /\ now < DebEpoch + MaxDebTime
    /\ \A tm \in timers : tm.due > now
    /\ now' = now + 1
    /\ UNCHANGED <<cacheVars, execVars, regVars, debVars>>

\* ---- bounds of the specification with cancel() and flush() ----
MaxCtlTime == 4
MaxCtlCalls == 3
MaxCtlOps == 2
CtlWait == 2
CtlMaxWait == 3

\* every leading / trailing pair, without and with a maxWait, and throttle (maxWait: wait)
CtlConfigs ==
    {[wait |-> CtlWait, leading |-> l, trailing |-> t, maxWait |-> m] :
        l \in BOOLEAN, t \in BOOLEAN, m \in {-1, CtlMaxWait, CtlWait}}

CtlCall == nextArg <= MaxCtlCalls /\ DebCall

CtlTick == now < DebEpoch + MaxCtlTime /\ DebTick

\* debounced.cancel()
DebCancel ==
    /\ afterCancel.n + lastFlush.n < MaxCtlOps
    /\ StoreDS(cancel(DS))
    /\ afterCancel' = [n |-> afterCancel.n + 1, mark |-> nextArg, dropped |-> lastArgs, quiet |-> TRUE, invs |-> << >>,
                       fired |-> FALSE]
    /\ lastFlush' = IF lastFlush.at = -1 THEN lastFlush ELSE [lastFlush EXCEPT !.cancelled = TRUE]
    /\ UNCHANGED <<now, opts, nextArg, burst, prevBurst, deferred, skews, cacheVars, execVars, regVars, utilVars, hostVars>>

\* debounced.flush()
DebFlush ==
    LET ds == flush(DS, now)
    IN  /\ afterCancel.n + lastFlush.n < MaxCtlOps
        /\ StoreDS(ds)
        /\ lastFlush' = [n |-> lastFlush.n + 1, at |-> now, ret |-> flushReturn(DS, now), invoked |-> ds.invoked,
                         pendingArgs |-> lastArgs, resultBefore |-> result,
                         later |-> << >>, fired |-> FALSE, cancelled |-> FALSE]
        /\ afterCancel' = IF afterCancel.mark = 0 THEN afterCancel
                          ELSE [afterCancel EXCEPT !.invs = @ \o ds.invoked]
        /\ burst' = [burst EXCEPT !.invs = @ \o ds.invoked, !.all = @ \o ArgsOf(ds.invoked)]
        /\ UNCHANGED <<now, opts, nextArg, prevBurst, deferred, skews, cacheVars, execVars, regVars, utilVars, hostVars>>

\* ---- bounds of the specification with a clock that is set back ----
MaxSkewTime == 2
MaxSkewCalls == 2
MaxSkews == 1
MaxSkewBy == 3
SkewWait == 2
SkewMaxWait == 3

\* trailing wrappers, with and without leading and maxWait
SkewConfigs ==
    {[wait |-> SkewWait, leading |-> l, trailing |-> TRUE, maxWait |-> m] :
        l \in BOOLEAN, m \in {-1, SkewMaxWait}}

SkewCall == nextArg <= MaxSkewCalls /\ DebCall

\* the system clock is set back by k ms; setTimeout runs on the monotonic clock, so
\* every armed timer keeps the delay it has left
ClockSetBack ==
    /\ skews < MaxSkews
    /\ \E k \in 1..MaxSkewBy :
           /\ now' = now - k
           /\ timers' = {[id |-> tm.id, due |-> tm.due - k] : tm \in timers}
    /\ skews' = skews + 1
    /\ UNCHANGED <<opts, timerId, nextTimer, lastCallTime, lastInvokeTime, lastArgs, nextArg,
                   burst, prevBurst, deferred, result, lastFlush, afterCancel,
                   cacheVars, execVars, regVars, utilVars, hostVars>>

\* time passes; it keeps passing while a timer is armed
SkewTick ==
    /\ now < DebEpoch + MaxSkewTime \/ timers # {}
    /\ \A tm \in timers : tm.due > now
    /\ now' = now + 1
    /\ UNCHANGED <<cacheVars, execVars, regVars, debVars>>

----------------------------------------------------------------------------
(* Components at rest: a specification leaves the other components here     *)

RegIdle ==
    /\ editors = << >>
    /\ nextId = 1
    /\ lastRegOp = [op |-> "none"]
    /\ inFlight = InFlightStart
    /\ settings = SettingsStart

DebounceIdle ==
    /\ opts = [wait |-> 0, leading |-> FALSE, trailing |-> TRUE, maxWait |-> -1]
    /\ DebounceStart

DebIdle == DebounceIdle /\ UtilIdle /\ HostIdle

ExecIdle ==
    /\ platform = "linux"
    /\ fsExists = {}
    /\ errorHandler = "none"
    /\ calls = << >>
    /\ children = << >>
    /\ runningProcesses = << >>
    /\ executionStats = [totalExecutions |-> 0, successfulExecutions |-> 0, failedExecutions |-> 0,
                         totalExecutionTime |-> 0, averageExecutionTime |-> <<0, 1>>]
    /\ commandBuilders = AllBuilders

----------------------------------------------------------------------------
(* Specifications                                                           *)

InitCache == now = 0 /\ CacheInit(CacheSpecSize) /\ ExecIdle /\ RegIdle /\ DebIdle

NextCache ==
    \/ CacheSetAction
    \/ CacheGetAction
    \/ CacheHasAction
    \/ CacheDeleteAction
    \/ CacheClearAction
    \/ CacheSweep
    \/ CacheTick

SpecCache == InitCache /\ [][NextCache]_vars

InitExec == now = 0 /\ CacheInit(DefaultMaxCacheSize) /\ ExecInit /\ RegIdle /\ DebIdle

NextExec ==
    \/ \E c \in Callers, params \in ExecParams : ExecStart(c, params)
    \/ \E c \in Callers, outcome \in LaunchOutcomes : ExecAfterVerify(c, outcome)
    \/ \E k \in 1..Len(children) : ChildSpawn(k)
    \/ \E k \in 1..Len(children) : ChildError(k)
    \/ \E k \in 1..Len(children) : ChildExit(k)
    \/ \E c \in Callers : WindowsGraceTimer(c)
    \/ \E handler \in {"ok", "throws"} : setErrorHandler(handler)
    \/ FsChange
    \/ ExecTick

SpecExec == InitExec /\ [][NextExec]_vars

----------------------------------------------------------------------------
(* DebounceUtils.rateLimit                                                  *)

RateMaxCalls == 2
RateWindow == 3
MaxRateTime == 5
MaxRateOps == 5

\* the base of the components a utility specification leaves at rest
UtilBase == CacheInit(DefaultMaxCacheSize) /\ ExecIdle /\ RegIdle /\ DebounceIdle /\ HostIdle

RECURSIVE pruneCalls(_, _, _)

\* variant of the window scan that keeps a record made exactly timeWindow ago
pruneCalls_KeepBoundary(cs, t, timeWindow) ==
    SelectSeq(cs, LAMBDA c : c >= t - timeWindow)

\* while (calls.length > 0 && calls[0] <= now - timeWindow) calls.shift()
pruneCalls(cs, t, timeWindow) ==
    IF cs # << >> /\ Head(cs) <= t - timeWindow
    THEN pruneCalls(Tail(cs), t, timeWindow)
    ELSE cs

\* one call of the wrapper returned by rateLimit
RateCall ==
    /\ Len(rateLimiter.log) < MaxRateOps
    /\ LET kept == pruneCalls(rateLimiter.calls, now, rateLimiter.timeWindow)
       IN  IF Len(kept) >= rateLimiter.maxCalls
           THEN rateLimiter' =
                    [rateLimiter EXCEPT !.calls = kept,
                        !.log = Append(@, [t |-> now, ret |-> FALSE, invoked |-> FALSE])]
           ELSE rateLimiter' =
                    [rateLimiter EXCEPT !.calls = Append(kept, now),
                        !.log = Append(@, [t |-> now, ret |-> TRUE, invoked |-> TRUE])]
    /\ UNCHANGED <<now, cacheVars, execVars, regVars, hostVars, opts, timerId, timers, nextTimer,
                   lastCallTime, lastInvokeTime, lastArgs, nextArg, burst, prevBurst, deferred,
                   result, lastFlush, afterCancel, skews, retrier, batcher, oncer>>

RateTick ==
    /\ now < MaxRateTime
    /\ now' = now + 1
    /\ UNCHANGED <<cacheVars, execVars, regVars, debVars>>

InitRateLimit ==
    /\ now = 0 /\ UtilBase
    /\ rateLimiter \in {[RateLimiterStart EXCEPT !.maxCalls = m, !.timeWindow = w] :
                            m \in 0..RateMaxCalls, w \in 0..RateWindow}
    /\ retrier = RetrierStart /\ batcher = BatcherStart /\ oncer = OncerStart

NextRateLimit == RateCall \/ RateTick

SpecRateLimit == InitRateLimit /\ [][NextRateLimit]_vars

----------------------------------------------------------------------------
(* DebounceUtils.retry                                                      *)

RetryMax == 2
RetryDelay == 2
MaxRetryTime == 3

\* the value attempt number n resolves with, and the error it rejects with
AttemptValue(n) == 100 + n
AttemptError(n) == 200 + n

UtilUnchangedButRetrier ==
    UNCHANGED <<cacheVars, execVars, regVars, hostVars, opts, timerId, timers, nextTimer,
                lastCallTime, lastInvokeTime, lastArgs, nextArg, burst, prevBurst, deferred,
                result, lastFlush, afterCancel, skews, rateLimiter, batcher, oncer>>

\* the loop body up to the await of func(...args)
retryAttempt(r, t) ==
    [r EXCEPT !.pc = "awaiting", !.attempts = Append(@, [start |-> t, end |-> -1, ok |-> FALSE])]

\* variant of the catch block that waits retryDelay after every failure
retryAfterFailure_AlwaysDelay(r, t) ==
    LET n == Len(r.attempts)
    IN  [r EXCEPT !.lastError = AttemptError(n), !.attempts[n].end = t,
                  !.pc = "delay", !.due = t + r.retryDelay]

\* the catch block, and the throw after the loop when this was the last round
retryAfterFailure(r, t) ==
    LET n == Len(r.attempts)
        r1 == [r EXCEPT !.lastError = AttemptError(n), !.attempts[n].end = t]
    IN  IF r.i < r.maxRetries
        THEN [r1 EXCEPT !.pc = "delay", !.due = t + r.retryDelay]
        ELSE [r1 EXCEPT !.pc = "done", !.i = @ + 1,
                        !.outcome = [status |-> "rejected", error |-> r1.lastError, t |-> t]]

\* the wrapper is called
RetryCall ==
    /\ retrier.pc = "idle"
    /\ retrier' = IF 0 <= retrier.maxRetries
                  THEN retryAttempt(retrier, now)
                  ELSE [retrier EXCEPT !.pc = "done",
                           !.outcome = [status |-> "rejected", error |-> retrier.lastError, t |-> now]]
    /\ UNCHANGED now /\ UtilUnchangedButRetrier

\* the promise of the running attempt settles
AttemptSettles(ok) ==
    /\ retrier.pc = "awaiting"
    /\ LET n == Len(retrier.attempts)
       IN  retrier' =
               IF ok
               THEN [retrier EXCEPT !.pc = "done", !.attempts[n].end = now, !.attempts[n].ok = TRUE,
                        !.outcome = [status |-> "resolved", value |-> AttemptValue(n), t |-> now]]
               ELSE retryAfterFailure(retrier, now)
    /\ UNCHANGED now /\ UtilUnchangedButRetrier

\* the retryDelay timer fires: the next round of the loop
RetryTimer ==
    /\ retrier.pc = "delay" /\ now >= retrier.due
    /\ retrier' = retryAttempt([retrier EXCEPT !.i = @ + 1, !.due = -1], now)
    /\ UNCHANGED now /\ UtilUnchangedButRetrier

\* time passes; it keeps passing while the delay timer is armed
RetryTick ==
    /\ now < MaxRetryTime \/ retrier.pc = "delay"
    /\ retrier.pc = "delay" => retrier.due > now
    /\ now' = now + 1
    /\ UNCHANGED <<cacheVars, execVars, regVars, debVars>>

InitRetry ==
    /\ now = 0 /\ UtilBase
    /\ retrier \in {[RetrierStart EXCEPT !.maxRetries = m, !.retryDelay = d] :
                        m \in 0..RetryMax, d \in 0..RetryDelay}
    /\ rateLimiter = RateLimiterStart /\ batcher = BatcherStart /\ oncer = OncerStart

NextRetry ==
    \/ RetryCall
    \/ \E ok \in BOOLEAN : AttemptSettles(ok)
    \/ RetryTimer
    \/ RetryTick

\* timers fire, time passes while one is armed, and the promise func returns settles
SpecRetry ==
    /\ InitRetry /\ [][NextRetry]_vars
    /\ WF_vars(RetryTimer) /\ WF_vars(RetryTick)
    /\ WF_vars(\E ok \in BOOLEAN : AttemptSettles(ok))

----------------------------------------------------------------------------
(* DebounceUtils.batch                                                      *)

BatchMax == 2
BatchDelay == 2
MaxBatchItems == 3
MaxBatchTime == 3
\* how many times func calls the batcher back while it runs
MaxReenter == 1

UtilUnchangedButBatcher ==
    UNCHANGED <<cacheVars, execVars, regVars, hostVars, opts, timerId, timers, nextTimer,
                lastCallTime, lastInvokeTime, lastArgs, nextArg, burst, prevBurst, deferred,
                result, lastFlush, afterCancel, skews, rateLimiter, retrier, oncer>>

RECURSIVE processBatch(_, _, _)
RECURSIVE batchAdd(_, _, _)

\* the wrapper returned by batch, called at time t with the next item; func
\* calls the wrapper back re more times
batchAdd(b, t, re) ==
    LET item == b.added + 1
        b1 == [b EXCEPT !.items = Append(@, item), !.added = item, !.addedAt = Append(@, t)]
    IN  IF Len(b1.items) >= b1.maxBatchSize
        THEN processBatch(IF b1.timeoutId # 0
                          THEN [b1 EXCEPT !.timers = {tm \in @ : tm.id # b1.timeoutId},
                                          !.timeoutId = 0]
                          ELSE b1, t, re)
        ELSE IF b1.timeoutId = 0
        THEN [b1 EXCEPT !.timeoutId = b1.nextTimer, !.nextTimer = @ + 1,
                        !.timers = @ \cup {[id |-> b1.nextTimer, due |-> t + b1.delay]}]
        ELSE b1

\* processBatch; func(batch) is recorded in delivered when it is called, and
\* func calls the batcher back only while fewer than MaxBatchItems were added.
\* When func throws (b.throws) the exception leaves processBatch before
\* timeoutId = undefined is reached
processBatch(b, t, re) ==
    IF b.items # << >> /\ b.throws
    THEN [b EXCEPT !.items = << >>, !.delivered = Append(@, b.items),
                   !.outcomes = Append(@, "threw")]
    ELSE LET b1 == IF b.items # << >>
                   THEN LET called == [b EXCEPT !.items = << >>,
                                                !.delivered = Append(@, b.items),
                                                !.outcomes = Append(@, "returned")]
                        IN  IF re > 0 /\ called.added < MaxBatchItems
                            THEN batchAdd(called, t, re - 1) ELSE called
                   ELSE b
         IN  [b1 EXCEPT !.timeoutId = 0]

\* an item is passed to the batcher
BatchAdd(re) ==
    /\ batcher.added < MaxBatchItems
    /\ batcher' = batchAdd(batcher, now, re)
    /\ UNCHANGED now /\ UtilUnchangedButBatcher

\* a setTimeout(processBatch, delay) timer fires
BatchTimer(re) ==
    /\ \E tm \in batcher.timers :
          /\ tm.due <= now
          /\ batcher' = processBatch([batcher EXCEPT !.timers = @ \ {tm}], now, re)
    /\ UNCHANGED now /\ UtilUnchangedButBatcher

\* time passes; it keeps passing while a timer is armed
BatchTick ==
    /\ now < MaxBatchTime \/ batcher.timers # {}
    /\ \A tm \in batcher.timers : tm.due > now
    /\ now' = now + 1
    /\ UNCHANGED <<cacheVars, execVars, regVars, debVars>>

InitBatch ==
    /\ now = 0 /\ UtilBase
    /\ batcher \in {[BatcherStart EXCEPT !.maxBatchSize = m, !.delay = d] :
                        m \in 1..BatchMax, d \in 1..BatchDelay}
    /\ rateLimiter = RateLimiterStart /\ retrier = RetrierStart /\ oncer = OncerStart

BatchTimerFires == \E re \in 0..MaxReenter : BatchTimer(re)

NextBatch ==
    \/ \E re \in 0..MaxReenter : BatchAdd(re)
    \/ BatchTimerFires
    \/ BatchTick

\* timers fire, and time passes while one is armed
SpecBatch == InitBatch /\ [][NextBatch]_vars /\ WF_vars(BatchTimerFires) /\ WF_vars(BatchTick)

\* an item is passed to the batcher, the batch reaches maxBatchSize, and func throws:
\* the exception reaches the caller of the wrapper
BatchAddThrows ==
    /\ batcher.added < MaxBatchItems
    /\ Len(batcher.items) + 1 >= batcher.maxBatchSize
    /\ batcher' = [batchAdd([batcher EXCEPT !.throws = TRUE], now, 0) EXCEPT !.throws = FALSE]
    /\ UNCHANGED now /\ UtilUnchangedButBatcher

\* a setTimeout(processBatch, delay) timer fires and func throws
BatchTimerThrows ==
    /\ \E tm \in batcher.timers :
          /\ tm.due <= now
          /\ batcher.items # << >>
          /\ batcher' = [processBatch([batcher EXCEPT !.timers = @ \ {tm}, !.throws = TRUE],
                                      now, 0) EXCEPT !.throws = FALSE]
    /\ UNCHANGED now /\ UtilUnchangedButBatcher

\* func returns or throws, and does not call the batcher back
NextBatchThrow ==
    \/ BatchAdd(0)
    \/ BatchAddThrows
    \/ BatchTimer(0)
    \/ BatchTimerThrows
    \/ BatchTick

SpecBatchThrow == InitBatch /\ [][NextBatchThrow]_vars

----------------------------------------------------------------------------
(* DebounceUtils.once                                                       *)

MaxOnceCalls == 4
MaxOnceArg == 3

\* what func does when it is invoked: return, throw, or call the wrapper
\* back before it returns
FuncBehaviours == {"returns", "throws", "reenters"}

\* the value func returns for an argument
OnceValue(arg) == 300 + arg

\* a call of the wrapper returned by once; the log holds the calls in the
\* order they began, each with what it returned (0 = undefined)
RECURSIVE onceCall(_, _, _)
onceCall(o, arg, behaviour) ==
    LET n == Len(o.log) + 1
    IN  IF ~o.called
        THEN LET entered == [o EXCEPT !.called = TRUE, !.invocations = @ + 1,
                                      !.log = Append(@, [arg |-> arg, end |-> "running", ret |-> 0])]
                 inside == IF behaviour = "reenters"
                           THEN onceCall(entered, arg, "returns")
                           ELSE entered
             IN  IF behaviour = "throws"
                 THEN [inside EXCEPT !.log[n].end = "threw"]
                 ELSE [inside EXCEPT !.result = OnceValue(arg),
                                     !.log[n].end = "returned", !.log[n].ret = OnceValue(arg)]
        ELSE [o EXCEPT !.log = Append(@, [arg |-> arg, end |-> "returned", ret |-> o.result])]

OnceCall ==
    /\ Len(oncer.log) < MaxOnceCalls
    /\ \E arg \in 1..MaxOnceArg, behaviour \in FuncBehaviours :
          oncer' = onceCall(oncer, arg, behaviour)
    /\ UNCHANGED <<now, cacheVars, execVars, regVars, hostVars, opts, timerId, timers, nextTimer,
                   lastCallTime, lastInvokeTime, lastArgs, nextArg, burst, prevBurst, deferred,
                   result, lastFlush, afterCancel, skews, rateLimiter, retrier, batcher>>

InitOnce ==
    /\ now = 0 /\ UtilBase
    /\ oncer = OncerStart
    /\ rateLimiter = RateLimiterStart /\ retrier = RetrierStart /\ batcher = BatcherStart

NextOnce == OnceCall

SpecOnce == InitOnce /\ [][NextOnce]_vars

----------------------------------------------------------------------------
(* CommandExecutor: the execution statistics under resetExecutionStats      *)

\* resetExecutionStats()
resetExecutionStats ==
    /\ executionStats.totalExecutions > 0
    /\ executionStats' = [totalExecutions |-> 0, successfulExecutions |-> 0, failedExecutions |-> 0,
                          totalExecutionTime |-> 0, averageExecutionTime |-> <<0, 1>>]
    /\ UNCHANGED <<now, cacheVars, platform, fsExists, errorHandler, calls, children,
                   runningProcesses, commandBuilders, regVars, debVars>>

NextExecStats ==
    \/ \E c \in Callers : ExecStartValid(c)
    \/ \E c \in Callers, outcome \in LaunchOutcomes : ExecAfterVerify(c, outcome)
    \/ \E k \in 1..Len(children) : ChildSpawn(k)
    \/ \E k \in 1..Len(children) : ChildError(k)
    \/ \E k \in 1..Len(children) : ChildExit(k)
    \/ \E c \in Callers : WindowsGraceTimer(c)
    \/ resetExecutionStats
    \/ ExecTick

SpecExecStats == InitExec /\ [][NextExecStats]_vars

----------------------------------------------------------------------------
(* CommandExecutor: the launch strategy of executeCommand on built commands *)

MaxStrategyPathLen == 2

\* path characters: plain, blank, the double quote of the builders, a shell operator
StrategyChars == {"/", " ", "\"", "&"}

StrategyPaths == UNION {[1..n -> StrategyChars] : n \in 1..MaxStrategyPathLen}

\* the file paths are one character shorter than the editor paths
StrategyFiles == UNION {[1..n -> StrategyChars] : n \in 1..(MaxStrategyPathLen - 1)}

StrategyParams ==
    {MkParams([id |-> <<"e", "1">>, path |-> e], f, 1) : e \in StrategyPaths, f \in StrategyFiles}

\* one executeJumpCommand call, for an editor path that exists
StrategyStart == \E params \in StrategyParams : ExecStart(1, params)

InitStrategy ==
    /\ now = 0 /\ CacheInit(DefaultMaxCacheSize) /\ RegIdle /\ DebIdle
    /\ platform \in Platforms
    /\ fsExists = StrategyPaths
    /\ errorHandler = "none"
    /\ calls = [c \in Callers |-> IdleCall]
    /\ children = << >>
    /\ runningProcesses = << >>
    /\ executionStats = [totalExecutions |-> 0, successfulExecutions |-> 0, failedExecutions |-> 0,
                         totalExecutionTime |-> 0, averageExecutionTime |-> <<0, 1>>]
    /\ commandBuilders = AllBuilders

NextStrategy ==
    \/ StrategyStart
    \/ \E c \in Callers, outcome \in LaunchOutcomes : ExecAfterVerify(c, outcome)
    \/ \E k \in 1..Len(children) : ChildSpawn(k)
    \/ \E k \in 1..Len(children) : ChildError(k)
    \/ \E k \in 1..Len(children) : ChildExit(k)

SpecStrategy == InitStrategy /\ [][NextStrategy]_vars

----------------------------------------------------------------------------
(* CacheManager: the cleanup interval timer, dispose, updateConfig, preload *)

MaxSweepTime == 60000
SweepTickStep == 30000
SweepTtl == 30000
MaxSweepSize == 2

\* the (data, ttl) arguments of set: the default ttl, and one of a whole period
SweepWrites == {<<DataA, 0>>, <<DataA, SweepTtl>>}

CacheLifeRest ==
    UNCHANGED <<execVars, regVars, extension, mouseListener, opts, timerId, timers, nextTimer,
                lastCallTime, lastInvokeTime, lastArgs, nextArg, burst, prevBurst, deferred,
                result, lastFlush, afterCancel, skews, utilVars>>

\* the record of the latest write of each key, after set(key, data, ttl) took
\* the cache manager from before to after
shadowSet(sh, before, after, key, data, ttl, t) ==
    [k \in CacheKeys |->
        IF k = key
        THEN [live |-> TRUE, data |-> data, timestamp |-> t,
              ttl |-> IF ttl = 0 THEN before.config.settingsCacheTtl ELSE ttl]
        ELSE IF k \in MapKeys(before.cache) \ MapKeys(after.cache) THEN NoShadow ELSE sh[k]]

\* set(key, data, ttl)
LifeSet ==
    \E key \in CacheKeys, w \in SweepWrites :
        LET cm == cacheSet(CM, key, w[1], w[2], now)
        IN  /\ StoreCM(cm)
            /\ shadow' = shadowSet(shadow, CM, cm, key, w[1], w[2], now)
            /\ cacheLife' = [cacheLife EXCEPT !.lowered = @ /\ MapHas(cache, key)]
            /\ UNCHANGED now /\ CacheLifeRest

\* preload(map) for a map of two entries: set is called for each in turn
LifePreload ==
    \E k1 \in CacheKeys : \E k2 \in CacheKeys \ {k1} :
        LET cm1 == cacheSet(CM, k1, DataA, 0, now)
            cm2 == cacheSet(cm1, k2, DataA, SweepTtl, now)
            sh1 == shadowSet(shadow, CM, cm1, k1, DataA, 0, now)
        IN  /\ StoreCM(cm2)
            /\ shadow' = shadowSet(sh1, cm1, cm2, k2, DataA, SweepTtl, now)
            /\ cacheLife' = [cacheLife EXCEPT
                                 !.lowered = @ /\ MapHas(cache, k1) /\ MapHas(cm1.cache, k2)]
            /\ UNCHANGED now /\ CacheLifeRest

\* the callback of the cleanup interval timer, run when it is due
LifeSweep ==
    /\ cacheLife.cleanupTimer >= 0 /\ now >= cacheLife.cleanupTimer
    /\ StoreCM(cleanupExpiredEntries(CM, now))
    /\ cacheLife' = [cacheLife EXCEPT !.cleanupTimer = @ + CleanupInterval]
    /\ UNCHANGED <<now, shadow>> /\ CacheLifeRest

\* dispose(): stopCleanupTimer() and clear()
LifeDispose ==
    /\ cacheLife.cleanupTimer >= 0
    /\ StoreCM(cacheClear(CM))
    /\ shadow' = [k \in CacheKeys |-> NoShadow]
    /\ cacheLife' = [cacheLife EXCEPT !.cleanupTimer = -1]
    /\ UNCHANGED now /\ CacheLifeRest

\* updateConfig({ maxCacheSize })
LifeUpdateConfig ==
    \E size \in 1..MaxSweepSize :
        /\ size # config.maxCacheSize
        /\ config' = [config EXCEPT !.maxCacheSize = size]
        /\ cacheLife' = [cacheLife EXCEPT !.lowered = @ \/ Len(cache) > size]
        /\ UNCHANGED <<now, cache, accessTimes, shadow>> /\ CacheLifeRest

\* the clock advances, but not past the instant the interval timer is due
LifeTick ==
    LET due == cacheLife.cleanupTimer
        next == IF due > now /\ due < now + SweepTickStep THEN due ELSE now + SweepTickStep
    IN  /\ ~(due >= 0 /\ due <= now)
        /\ next <= MaxSweepTime
        /\ now' = next
        /\ UNCHANGED <<cacheVars, execVars, regVars, debVars>>

InitCacheLife == now = 0 /\ CacheInit(MaxSweepSize) /\ ExecIdle /\ RegIdle /\ DebIdle

NextCacheLife ==
    \/ LifeSet
    \/ LifePreload
    \/ CacheGetAction
    \/ CacheHasAction
    \/ CacheDeleteAction
    \/ CacheClearAction
    \/ LifeSweep
    \/ LifeDispose
    \/ LifeUpdateConfig
    \/ LifeTick

SpecCacheLife == InitCacheLife /\ [][NextCacheLife]_vars

----------------------------------------------------------------------------
(* QuickAIExtension: the two commands that trigger a jump                   *)

MaxTriggerTime == 150
TriggerTickStep == 75

\* what getProjectContextFromEditor / createProjectContext return for an editor
\* on a file of a workspace folder
ContextX == [currentFilePath |-> FileX, currentLineNumber |-> 1]
ContextY == [currentFilePath |-> FileY, currentLineNumber |-> 42]

\* vscode.window.activeTextEditor: none, or an editor that yields a context
ActiveEditors == {Undefined, ContextX}

\* configManager.getDefaultEditor(): none configured, or the configured editor
DefaultEditors == {Undefined, EditorA}

\* the selection listener of the extension, for a mouse click that yields a context
ClickListener ==
    /\ extension.lastClickContext # ContextY \/ extension.lastClickTime # now
    /\ extension' = [extension EXCEPT !.lastClickContext = ContextY, !.lastClickTime = now]
    /\ UNCHANGED <<now, cacheVars, execVars, regVars, mouseListener, cacheLife, opts, timerId, timers,
                   nextTimer, lastCallTime, lastInvokeTime, lastArgs, nextArg, burst, prevBurst,
                   deferred, result, lastFlush, afterCancel, skews, utilVars>>

\* handleJumpToEditor up to the await of executeJumpCommand
handleJumpToEditor(c, context, defaultEditor) ==
    /\ defaultEditor # Undefined
    /\ ExecStart(c, MkParams(defaultEditor, context.currentFilePath, context.currentLineNumber))

\* the command quickai.triggerWithShortcut: handleShortcutTriggeredJump
handleShortcutTriggeredJump(c) ==
    \E activeEditor \in ActiveEditors, defaultEditor \in DefaultEditors :
        LET timeDiff == now - extension.lastClickTime
            context == IF timeDiff > 2000 \/ extension.lastClickContext = Undefined
                       THEN activeEditor ELSE extension.lastClickContext
        IN  /\ context # Undefined
            /\ handleJumpToEditor(c, context, defaultEditor)

\* the command quickai.jumpToExternalEditor: handleJumpCommand
handleJumpCommand(c) ==
    \E activeEditor \in ActiveEditors, defaultEditor \in DefaultEditors :
        /\ activeEditor # Undefined
        /\ handleJumpToEditor(c, activeEditor, defaultEditor)

TriggerTick ==
    /\ now + TriggerTickStep <= MaxTriggerTime
    /\ now' = now + TriggerTickStep
    /\ UNCHANGED <<cacheVars, execVars, regVars, debVars>>

InitTrigger ==
    /\ now = 0 /\ CacheInit(DefaultMaxCacheSize) /\ RegIdle /\ DebIdle
    /\ ExecInit /\ fsExists = {EditorA.path}

NextTrigger ==
    \/ \E c \in Callers : handleShortcutTriggeredJump(c)
    \/ \E c \in Callers : handleJumpCommand(c)
    \/ ClickListener
    \/ \E c \in Callers, outcome \in LaunchOutcomes : ExecAfterVerify(c, outcome)
    \/ \E k \in 1..Len(children) : ChildSpawn(k)
    \/ \E k \in 1..Len(children) : ChildError(k)
    \/ \E k \in 1..Len(children) : ChildExit(k)
    \/ \E c \in Callers : WindowsGraceTimer(c)
    \/ TriggerTick

SpecTrigger == InitTrigger /\ [][NextTrigger]_vars

----------------------------------------------------------------------------
(* MouseListener: selection-change events, the debounce timer, the callback *)

MaxMouseEvents == 3
MaxMouseInvokes == 2
MaxMouseTime == 300
MouseTickStep == 75

MouseUnchanged ==
    UNCHANGED <<cacheVars, execVars, regVars, extension, cacheLife, opts, timerId, timers, nextTimer,
                lastCallTime, lastInvokeTime, lastArgs, nextArg, burst, prevBurst, deferred,
                result, lastFlush, afterCancel, skews, utilVars>>

\* checkModifierKeys(): the listener cannot read the keys that are held
checkModifierKeys == FALSE

\* clearDebounceTimer()
clearDebounceTimer(ml) == [ml EXCEPT !.debounceTimer = Undefined]

\* debounceEventHandling(context)
debounceEventHandling(ml, context, t) ==
    [clearDebounceTimer(ml) EXCEPT
        !.debounceTimer = [due |-> t + ml.config.debounceTime, context |-> context]]

\* handleValidEvent(context) up to the await of the callback, or to its end
\* when no callback is set
handleValidEvent(ml, context, t) ==
    IF ~ml.jumpCallback
    THEN [ml EXCEPT !.isProcessing = FALSE]
    ELSE [ml EXCEPT !.isProcessing = TRUE,
                    !.invoked = Append(@, [at |-> t, context |-> context])]

\* handleSelectionChange(event); held tells whether the configured modifier
\* keys were down, which the event does not carry
handleSelectionChange(ml, kind, held, context, t) ==
    LET counted == [ml EXCEPT !.eventStats.totalEvents = @ + 1]
        ignored == [counted EXCEPT !.eventStats.ignoredEvents = @ + 1]
    IN  IF ~ml.config.enabled THEN ignored
        ELSE IF ml.isProcessing THEN ignored
        ELSE IF kind # "Mouse" THEN ignored
        ELSE IF ~checkModifierKeys THEN ignored
        ELSE IF context = Undefined THEN ignored
        ELSE debounceEventHandling(counted, context, t)

\* the event is one the listener is meant to act on: a mouse selection change
\* with the modifier keys held, in a file of a workspace folder, while the
\* listener is started and enabled and no jump is being processed
Qualifies(ml, kind, held, context) ==
    /\ ml.eventListeners > 0 /\ ml.jumpCallback /\ ml.config.enabled /\ ~ml.isProcessing
    /\ kind = "Mouse" /\ held /\ context # Undefined

\* vscode.window.onDidChangeTextEditorSelection delivers an event
SelectionChange ==
    /\ mouseListener.eventListeners > 0
    /\ mouseListener.eventStats.totalEvents < MaxMouseEvents
    /\ \E kind \in {"Mouse", "Keyboard"}, held \in BOOLEAN,
          context \in {Undefined, ContextX, ContextY} :
          LET after == handleSelectionChange(mouseListener, kind, held, context, now)
          IN  mouseListener' =
                  IF Qualifies(mouseListener, kind, held, context)
                  THEN [after EXCEPT !.lastQualifying = [at |-> now, context |-> context]]
                  ELSE after
    /\ UNCHANGED now /\ MouseUnchanged

\* start(jumpCallback)
MouseStart ==
    /\ mouseListener.eventListeners = 0
    /\ mouseListener' = [mouseListener EXCEPT !.jumpCallback = TRUE, !.eventListeners = @ + 1]
    /\ UNCHANGED now /\ MouseUnchanged

\* stop()
MouseStop ==
    /\ mouseListener.eventListeners > 0
    /\ mouseListener' = [clearDebounceTimer(mouseListener) EXCEPT
                             !.eventListeners = 0, !.jumpCallback = FALSE,
                             !.lastQualifying = Undefined]
    /\ UNCHANGED now /\ MouseUnchanged

\* updateConfig({ enabled })
MouseUpdateConfig ==
    /\ mouseListener' = [mouseListener EXCEPT !.config.enabled = ~@,
                                               !.lastQualifying = Undefined]
    /\ UNCHANGED now /\ MouseUnchanged

\* manualTrigger(context)
ManualTrigger ==
    /\ Len(mouseListener.invoked) < MaxMouseInvokes
    /\ ~mouseListener.isProcessing
    /\ \E context \in {ContextX, ContextY} :
          mouseListener' = handleValidEvent(mouseListener, context, now)
    /\ UNCHANGED now /\ MouseUnchanged

\* the awaited jump callback settles: the rest of handleValidEvent
CallbackSettles ==
    /\ mouseListener.isProcessing
    /\ \E ok \in BOOLEAN :
          mouseListener' = [mouseListener EXCEPT
              !.eventStats.validEvents = IF ok THEN @ + 1 ELSE @,
              !.eventStats.errorEvents = IF ok THEN @ ELSE @ + 1,
              !.isProcessing = FALSE]
    /\ UNCHANGED now /\ MouseUnchanged

\* the clock advances; the debounce timer runs its callback once it is due
MouseTick ==
    /\ now + MouseTickStep <= MaxMouseTime
    /\ now' = now + MouseTickStep
    /\ LET timer == mouseListener.debounceTimer
       IN  mouseListener' =
               IF timer # Undefined /\ timer.due <= now'
               THEN handleValidEvent(clearDebounceTimer(mouseListener), timer.context, now')
               ELSE mouseListener
    /\ MouseUnchanged

InitMouse == now = 0 /\ CacheInit(DefaultMaxCacheSize) /\ ExecIdle /\ RegIdle /\ DebIdle

NextMouse ==
    \/ MouseStart
    \/ MouseStop
    \/ MouseUpdateConfig
    \/ SelectionChange
    \/ ManualTrigger
    \/ CallbackSettles
    \/ MouseTick

SpecMouse == InitMouse /\ [][NextMouse]_vars

----------------------------------------------------------------------------
(* The darwin and linux command builders applied to bounded inputs           *)

MaxPathLen == 2
MaxLine == 42

\* the characters of the paths handed to the builders: those the shell of the
\* platform gives a meaning to, and one it does not
PathChars(plat) ==
    IF plat = "win32" THEN {"/", " ", "\\"}
    ELSE {"/", " ", "'", "\"", "$", Backquote}

BuildPaths(plat) == UNION {[1..n -> PathChars(plat)] : n \in 1..MaxPathLen}

BuildParams(plat) ==
    {MkParams([id |-> <<"e", "1">>, path |-> e], f, n) :
        e \in BuildPaths(plat), f \in BuildPaths(plat), n \in {1, MaxLine}}

InitBuild ==
    /\ now = 0 /\ CacheInit(DefaultMaxCacheSize) /\ RegIdle /\ DebIdle
    /\ platform \in {"darwin", "linux", "win32"}
    /\ fsExists = {}
    /\ errorHandler = "none"
    /\ calls \in {<<[IdleCall EXCEPT !.params = p]>> : p \in BuildParams(platform)}
    /\ children = << >>
    /\ runningProcesses = << >>
    /\ executionStats = [totalExecutions |-> 0, successfulExecutions |-> 0, failedExecutions |-> 0,
                         totalExecutionTime |-> 0, averageExecutionTime |-> <<0, 1>>]
    /\ commandBuilders = AllBuilders

\* builder(params, platform) for the builder registered under the platform
BuilderCall ==
    /\ calls[1].pc = "idle"
    /\ platform \in commandBuilders
    /\ calls' = [calls EXCEPT ![1].command = RunBuilder(platform, calls[1].params),
                              ![1].pc = "built"]
    /\ UNCHANGED <<now, cacheVars, platform, fsExists, errorHandler, children, runningProcesses,
                   executionStats, commandBuilders, regVars, debVars>>

NextBuild == BuilderCall

SpecBuild == InitBuild /\ [][NextBuild]_vars

NextExecKill ==
    \/ \E c \in Callers : ExecStartValid(c)
    \/ \E c \in Callers, outcome \in LaunchOutcomes : ExecAfterVerify(c, outcome)
    \/ \E k \in 1..Len(children) : ChildSpawn(k)
    \/ \E k \in 1..Len(children) : ChildError(k)
    \/ \E k \in 1..Len(children) : ChildExit(k)
    \/ \E c \in Callers : WindowsGraceTimer(c)
    \/ \E throwers \in SUBSET Tabled : killAllProcesses(throwers)
    \/ ExecTick

SpecExecKill == InitExec /\ [][NextExecKill]_vars

\* the continuation of a call after its awaited path check
AfterVerify == \E c \in Callers, outcome \in LaunchOutcomes : ExecAfterVerify(c, outcome)

\* the first event of a launched child: spawn or error
ChildFirstEvent == \E k \in 1..Len(children) : ChildSpawn(k) \/ ChildError(k)

NextExecLaunch ==
    \/ \E c \in Callers : ExecStartValid(c)
    \/ AfterVerify
    \/ \E k \in 1..Len(children) : ChildSpawn(k)
    \/ \E k \in 1..Len(children) : ChildError(k)
    \/ \E k \in 1..Len(children) : ChildLateError(k)
    \/ \E k \in 1..Len(children) : ChildExit(k)
    \/ \E c \in Callers : WindowsGraceTimer(c)
    \/ \E handler \in {"ok", "throws"} : setErrorHandler(handler)
    \/ ExecTick

\* the event loop runs every queued continuation, and a child process the
\* runtime has started emits spawn or error.  AfterVerify is enabled exactly
\* while a continuation is queued, and a behaviour has finitely many AfterVerify
\* steps, so WF_vars(AfterVerify) is written as []<>NoMicrotaskPending
SpecExecLaunch ==
    /\ InitExec /\ [][NextExecLaunch]_vars
    /\ []<>NoMicrotaskPending
    /\ WF_vars(ChildFirstEvent)

InitRegistry == now = 0 /\ CacheInit(DefaultMaxCacheSize) /\ ExecIdle /\ RegInit /\ DebIdle

NextRegistry ==
    \/ AddEditor
    \/ UpdateEditor
    \/ DeleteEditor
    \/ SetDefaultEditor
    \/ RegTick

SpecRegistry == InitRegistry /\ [][NextRegistry]_vars

NextRegistryFlight ==
    \/ FlightAdd
    \/ FlightUpdate
    \/ FlightDelete
    \/ FlightSetDefault
    \/ FlightWriteDone
    \/ RegTick

SpecRegistryFlight == InitRegistry /\ [][NextRegistryFlight]_vars

NextSettings ==
    \/ UpdateDebounceTime
    \/ RegTick

SpecSettings == InitRegistry /\ [][NextSettings]_vars

InitDebounce == now = DebEpoch /\ CacheInit(DefaultMaxCacheSize) /\ ExecIdle /\ RegIdle /\ DebInit

NextDebounce ==
    \/ DebCall
    \/ DebTimerFire
    \/ DebTick

SpecDebounce == InitDebounce /\ [][NextDebounce]_vars

InitDebounceOpts ==
    /\ now = DebEpoch /\ CacheInit(DefaultMaxCacheSize) /\ ExecIdle /\ RegIdle
    /\ opts \in OptConfigs /\ DebStart

SpecDebounceOpts == InitDebounceOpts /\ [][NextDebounce]_vars

\* debounce(f, wait, {leading, trailing}) without maxWait, for every leading / trailing pair
BurstConfigs ==
    {[wait |-> OptWait, leading |-> l, trailing |-> t, maxWait |-> -1] :
        l \in BOOLEAN, t \in BOOLEAN}

InitDebounceBurst ==
    /\ now = DebEpoch /\ CacheInit(DefaultMaxCacheSize) /\ ExecIdle /\ RegIdle
    /\ opts \in BurstConfigs /\ DebStart

SpecDebounceBurst == InitDebounceBurst /\ [][NextDebounce]_vars

InitDebounceCtl ==
    /\ now = DebEpoch /\ CacheInit(DefaultMaxCacheSize) /\ ExecIdle /\ RegIdle
    /\ opts \in CtlConfigs /\ DebStart

NextDebounceCtl ==
    \/ CtlCall
    \/ DebTimerFire
    \/ CtlTick
    \/ DebCancel
    \/ DebFlush

SpecDebounceCtl == InitDebounceCtl /\ [][NextDebounceCtl]_vars

InitDebounceSkew ==
    /\ now = DebEpoch /\ CacheInit(DefaultMaxCacheSize) /\ ExecIdle /\ RegIdle
    /\ opts \in SkewConfigs /\ DebStart

NextDebounceSkew ==
    \/ SkewCall
    \/ DebTimerFire
    \/ ClockSetBack
    \/ SkewTick

\* the event loop runs every timer that is due, and time does not stop
SpecDebounceSkew ==
    InitDebounceSkew /\ [][NextDebounceSkew]_vars /\ WF_vars(DebTimerFire) /\ WF_vars(SkewTick)

----------------------------------------------------------------------------
(* Properties of the cache (SpecCache)                                      *)

\* C6: for every key and every time now, get(key) returns the data of the most
\* recent set(key, data, ttl) iff that entry has not been deleted, cleared or
\* evicted and now - timestamp <= ttl (timestamp = the time of that set);
\* otherwise it returns absent.
C6_GetReturnsLatestSetWhileFresh ==
    \A key \in CacheKeys :
        cacheGet(CM, key, now).value =
            IF shadow[key].live /\ now - shadow[key].timestamp <= shadow[key].ttl
            THEN shadow[key].data
            ELSE Undefined

\* a key whose latest set is exactly ttl old is still returned by get
C6_Witness ==
    \E key \in CacheKeys :
        /\ shadow[key].live
        /\ now - shadow[key].timestamp = shadow[key].ttl
        /\ cacheGet(CM, key, now).value = shadow[key].data

\* C7 as stated: for all entries, get(key) returns the stored value iff it is called
\* strictly before timestamp + ttl elapses; a get called after that instant returns
\* absent and removes the entry (key no longer listed, size decreases by one).
C7_GetStrictlyBeforeExpiry ==
    \A key \in MapKeys(cache) :
        LET e == MapGet(cache, key)
            r == cacheGet(CM, key, now)
        IN  /\ (r.value = e.data) <=> (now < e.timestamp + e.ttl)
            /\ now > e.timestamp + e.ttl =>
                  /\ r.value = Undefined
                  /\ key \notin MapKeys(r.cm.cache)
                  /\ Len(r.cm.cache) = Len(cache) - 1

\* C7 amended: for all entries, get(key) returns the stored value iff it is called
\* no later than timestamp + ttl; a get called after that instant returns absent and
\* removes the entry (key no longer listed, size decreases by one).
C7_GetUpToExpiry ==
    \A key \in MapKeys(cache) :
        LET e == MapGet(cache, key)
            r == cacheGet(CM, key, now)
        IN  /\ (r.value = e.data) <=> (now <= e.timestamp + e.ttl)
            /\ now > e.timestamp + e.ttl =>
                  /\ r.value = Undefined
                  /\ key \notin MapKeys(r.cm.cache)
                  /\ Len(r.cm.cache) = Len(cache) - 1

\* an entry that outlived its ttl is still stored, so the next get has to remove it
C7_Witness ==
    \E key \in MapKeys(cache) :
        /\ now > MapGet(cache, key).timestamp + MapGet(cache, key).ttl
        /\ cacheGet(CM, key, now).value = Undefined

AccessTimeOf(key) == MapGet(accessTimes, key).time

\* C8: when set is called with a key that is not in the store while
\* size == maxCacheSize, exactly one entry is evicted, it is the one with the oldest
\* access timestamp among all entries, and the size after the set equals
\* maxCacheSize, whatever the access timestamps are relative to the current time.
C8_SetAtCapacityEvictsOldest ==
    Len(cache) = config.maxCacheSize =>
        \A key \in CacheKeys \ MapKeys(cache), w \in CacheWrites :
            LET cm == cacheSet(CM, key, w[1], w[2], now)
                evicted == MapKeys(cache) \ MapKeys(cm.cache)
            IN  /\ Cardinality(evicted) = 1
                /\ \A k \in evicted : \A o \in MapKeys(accessTimes) : AccessTimeOf(k) <= AccessTimeOf(o)
                /\ Len(cm.cache) = config.maxCacheSize

----------------------------------------------------------------------------
(* Properties of executeJumpCommand (SpecExec)                              *)

Returned(c) == calls[c].result.status = "resolved"

Succeeded(c) == Returned(c) /\ calls[c].result.success

\* the command the platform's builder makes of the call's own parameters
OwnCommand(c) ==
    RunBuilder(IF platform \in AllBuilders THEN platform ELSE "default", calls[c].params)

\* C1: every executeJumpCommand call that returns success=true has launched and
\* returned the command built from that call's own editor path, file path and line
\* number, also when several calls for the same editor id are less than 1 s apart.
C1_SuccessReturnsOwnCommand ==
    \A c \in Callers :
        Succeeded(c) =>
            /\ calls[c].result.command = OwnCommand(c)
            /\ children[calls[c].child].command = OwnCommand(c)

\* C2: if the editor's path does not exist on disk when executeJumpCommand is
\* called, the call returns success=false and no child process is spawned,
\* whatever calls preceded it.
C2_MissingPathNeverLaunches ==
    \A c \in Callers :
        (calls[c].pc # "idle" /\ ~calls[c].existedAtCall) =>
            /\ calls[c].child = 0
            /\ "launch" \notin calls[c].fx
            /\ ~Succeeded(c)

\* the inputs C3 is about, stated on the parameters alone
BlankString(str) == \A i \in 1..Len(str) : str[i] \in Whitespace

InvalidInput(params) ==
    /\ params.editor # Undefined
    /\ \/ BlankString(params.editor.path)
       \/ BlankString(params.filePath)
       \/ params.lineNumber < 1

\* C3: executeJumpCommand called with an empty or whitespace-only editor path, an
\* empty or whitespace-only file path, or lineNumber < 1 returns
\* {success:false, error} and, before returning, performs no path-existence check,
\* no command construction, no command-cache read or write and no process launch.
C3_InvalidInputRejectedWithoutEffect ==
    \A c \in Callers :
        (calls[c].pc # "idle" /\ InvalidInput(calls[c].params)) =>
            /\ Returned(c)
            /\ ~calls[c].result.success
            /\ calls[c].result.error # ""
            /\ calls[c].fx = {}
            /\ calls[c].child = 0

\* the part of C3 about effects: an invalid call has finished without any path
\* check, cache access, command construction or launch
InvalidInputHasNoEffect ==
    \A c \in Callers :
        (calls[c].pc # "idle" /\ InvalidInput(calls[c].params)) =>
            /\ calls[c].pc = "done"
            /\ calls[c].fx = {}
            /\ calls[c].child = 0

\* C4: executeJumpCommand never throws or rejects: for every input, every sequence
\* of child-process events and every behaviour of the injected error handler, the
\* returned promise resolves to a CommandExecutionResult.
C4_NeverRejects ==
    \A c \in Callers : calls[c].result.status # "rejected"

----------------------------------------------------------------------------
(* Properties of the editor registry (SpecRegistry)                         *)

DefaultCount == Cardinality({i \in 1..Len(editors) : editors[i].isDefault})

\* C5: starting from an empty registry, after any sequence of addEditor,
\* updateEditor, deleteEditor and setDefaultEditor operations with arbitrary
\* arguments, a non-empty registry has exactly one EditorConfig with isDefault=true
\* and an empty registry has none.
C5_ExactlyOneDefault ==
    IF Len(editors) = 0 THEN DefaultCount = 0 ELSE DefaultCount = 1


----------------------------------------------------------------------------
(* Properties of DebounceUtils.debounce                                     *)

\* the wrapper made by debounce(f, wait, {leading: false, trailing: true})
PlainTrailing == opts.maxWait = -1 /\ ~opts.leading /\ opts.trailing

\* func ran exactly once for the burst, with the arguments of its final call
\* and not before wait after that call
InvokedOnceWithFinal(final, finalArgs, invs) ==
    /\ Len(invs) = 1
    /\ invs[1][2] = finalArgs
    /\ invs[1][1] >= final + opts.wait

\* the quiet period after the latest call has run its course
QuietElapsed ==
    /\ lastCallTime # -1
    /\ now - lastCallTime >= opts.wait
    /\ \A tm \in timers : tm.due > now

\* C9: with leading false, trailing true and no maxWait, a burst of calls each
\* less than wait after the one before, followed by a quiet period of at least
\* wait, invokes func exactly once, with the arguments of the burst's final
\* call and not earlier than wait after that call.
C9_BurstInvokesOnceAfterQuiet ==
    PlainTrailing =>
        /\ prevBurst.start # -1 =>
               InvokedOnceWithFinal(prevBurst.final, prevBurst.finalArgs, prevBurst.invs)
        /\ QuietElapsed =>
               InvokedOnceWithFinal(lastCallTime, nextArg - 1, burst.invs)

\* C9 as amended: the same for a quiet period in which the pending timer
\* expires before any further call, as it does in every quiet period longer
\* than wait.
C9_BurstInvokesOnceWhenTimerRunsFirst ==
    PlainTrailing =>
        /\ (prevBurst.start # -1 /\ prevBurst.timerDone) =>
               InvokedOnceWithFinal(prevBurst.final, prevBurst.finalArgs, prevBurst.invs)
        /\ (prevBurst.start # -1 /\ prevBurst.endedAt - prevBurst.final > opts.wait) =>
               prevBurst.timerDone
        /\ QuietElapsed =>
               InvokedOnceWithFinal(lastCallTime, nextArg - 1, burst.invs)

\* a burst of two calls was followed by a longer quiet period, func ran, and a later burst has begun
C9_Witness ==
    /\ PlainTrailing
    /\ prevBurst.start # -1
    /\ prevBurst.final > prevBurst.start
    /\ prevBurst.endedAt - prevBurst.final > opts.wait
    /\ prevBurst.timerDone
    /\ Len(prevBurst.invs) = 1

\* the wrapper made by debounce(f, wait, {maxWait}) with maxWait above wait
PressedByMaxWait ==
    opts.maxWait # -1 /\ opts.maxWait > opts.wait /\ ~opts.leading /\ opts.trailing

\* C10: with maxWait above wait, while calls keep arriving less than wait
\* apart, func is invoked at least once in every span of length maxWait: no
\* call of such a burst finds more than maxWait gone by since func was last
\* invoked (or since the burst began).
C10_InvokedWithinEveryMaxWait ==
    PressedByMaxWait => deferred <= opts.maxWait


\* the wrapper has a maxWait above its wait
HasLongerMaxWait == opts.maxWait # -1 /\ opts.maxWait > opts.wait

\* C11: for every combination of leading and trailing, under continuous calling
\* a wrapper with maxWait invokes func at the instant maxWait has elapsed since
\* the previous invocation (or since the first call of the burst): while the
\* latest call is less than wait old, never more than maxWait has gone by
\* without an invocation.
C11_ForcedInvocationAtMaxWait ==
    (HasLongerMaxWait /\ lastCallTime # -1 /\ now - lastCallTime < opts.wait) =>
        now - LastMark <= opts.maxWait

\* the wrapper made by throttle(f, wait, {leading, trailing})
IsThrottle == opts.maxWait = opts.wait

\* the invocations of func in the previous and the current burst, in order
RecentInvocations ==
    (IF prevBurst.start # -1 THEN prevBurst.invs ELSE << >>) \o burst.invs

\* C12: for throttle(f, wait) with any leading / trailing options and any
\* pattern of calls, any two invocations of func are at least wait apart.
C12_ThrottledInvocationsWaitApart ==
    IsThrottle =>
        \A i \in 1..(Len(RecentInvocations) - 1) :
            RecentInvocations[i + 1][1] - RecentInvocations[i][1] >= opts.wait


----------------------------------------------------------------------------
(* Properties of cancel, flush and pending (SpecDebounceCtl)                *)

\* C13: after cancel(), pending() returns false and func is never invoked with
\* the arguments of a call made before the cancel: until the wrapper is called
\* again no timer started before the cancel causes an invocation.
C13_CancelDiscardsPending ==
    afterCancel.mark # 0 =>
        /\ afterCancel.quiet => (~pending(DS) /\ afterCancel.invs = << >>)
        /\ \A i \in 1..Len(afterCancel.invs) : afterCancel.invs[i][2] >= afterCancel.mark

\* cancel() discarded the arguments of a call and a timer started before it has fired since
C13_Witness ==
    /\ afterCancel.mark > 1
    /\ afterCancel.dropped # 0
    /\ afterCancel.quiet
    /\ afterCancel.fired

\* C14: if a trailing invocation is pending, flush() invokes func exactly once,
\* with the most recent call's arguments, and returns its result, and those
\* arguments are not invoked again when the original timer fires later; if
\* nothing is pending, flush() invokes nothing and returns the last result.
C14_FlushRunsPendingOnce ==
    lastFlush.at # -1 =>
        IF opts.trailing /\ lastFlush.pendingArgs # 0
        THEN /\ lastFlush.invoked = << <<lastFlush.at, lastFlush.pendingArgs>> >>
             /\ lastFlush.ret = FuncResult(lastFlush.pendingArgs)
             /\ \A i \in 1..Len(lastFlush.later) : lastFlush.later[i][2] # lastFlush.pendingArgs
        ELSE /\ lastFlush.invoked = << >>
             /\ lastFlush.ret = lastFlush.resultBefore

\* flush() ran a pending trailing invocation and a timer has fired since, with no cancel between
C14_Witness ==
    /\ lastFlush.at # -1
    /\ opts.trailing
    /\ lastFlush.pendingArgs # 0
    /\ lastFlush.fired
    /\ ~lastFlush.cancelled

\* C15: in every reachable state pending() returns true iff an invocation of
\* func is scheduled: some call's arguments have not been invoked yet and a
\* timer will invoke them if no further call, cancel or flush happens.
C15_PendingIffScheduled ==
    pending(DS) <=> (lastArgs # 0 /\ TimersInvoke(DS, now))


----------------------------------------------------------------------------
(* Properties under a clock that is set back (SpecDebounceSkew)             *)

\* a timer fires while the clock reads earlier than the last call and a call is pending
TimerFiresBeforeLastCall ==
    /\ DebTimerFire
    /\ lastCallTime # -1
    /\ now < lastCallTime
    /\ lastArgs # 0

\* C16: a clock that reads earlier than the last call time counts as 'invoke
\* now', not as a reason to re-schedule: a timer that fires then invokes func
\* with the pending arguments at once, and with trailing enabled the latest
\* pending call is eventually invoked (unless a later call replaces it),
\* however far the clock was set back.
C16_SkewInvokesNow ==
    /\ [][TimerFiresBeforeLastCall =>
            (lastArgs' = 0 /\ timerId' = 0 /\ result' = FuncResult(lastArgs))]_vars
    /\ \A a \in 1..MaxSkewCalls :
           (lastArgs = a) ~> (result = FuncResult(a) \/ nextArg > a + 1)

\* the latest call was invoked at a clock reading earlier than the time of that call
C16_Witness ==
    /\ skews > 0
    /\ lastArgs = 0
    /\ burst.invs # << >>
    /\ burst.invs[Len(burst.invs)][2] = nextArg - 1
    /\ burst.invs[Len(burst.invs)][1] < lastCallTime


\* C17: when killAllProcesses() returns the live-process table is empty and
\* kill() has been called on every process that was in the table and was not
\* already killed, also when kill() throws for some of them; a later exit or
\* error event of a process that was in the table at that moment leaves the
\* table unchanged.
C17_KillAllEmptiesTable ==
    /\ [][\A throwers \in SUBSET Tabled :
              killAllProcesses(throwers) =>
                  /\ runningProcesses' = << >>
                  /\ \A k \in Tabled :
                        /\ children'[k].swept
                        /\ ~children[k].killed =>
                               children'[k].killCalls = children[k].killCalls + 1]_vars
    /\ [][\A k \in 1..Len(children) :
              (children[k].swept /\ (ChildExit(k) \/ ChildError(k))) =>
                  runningProcesses' = runningProcesses]_vars


\* C18: every executeJumpCommand call that launches a child eventually
\* resolves, without waiting for the child to exit: when the child emits spawn
\* (success) or error (failure), and on Windows no later than the grace timer
\* armed at the launch; the first of these events fixes the outcome and later
\* events (error after spawn, timer after error, exit) do not change it.
C18_LaunchResolvesOnFirstEvent ==
    /\ \A c \in Callers : (calls[c].pc = "awaitLaunch") ~> Returned(c)
    /\ [](\A c \in Callers :
            calls[c].pc = "awaitLaunch" =>
                /\ children[calls[c].child].state = "starting"
                /\ platform = "win32" => calls[c].graceDue >= 0)
    /\ [][\A c \in Callers :
              /\ (calls[c].pc = "awaitLaunch" /\ ChildSpawn(calls[c].child)) => Succeeded(c)'
              /\ (calls[c].pc = "awaitLaunch" /\ WindowsGraceTimer(c)) => Succeeded(c)'
              /\ (calls[c].pc = "awaitLaunch" /\ ChildError(calls[c].child)) =>
                     (Returned(c)' /\ ~Succeeded(c)')
              /\ calls[c].pc = "done" => calls'[c] = calls[c]]_vars


\* C19: the installed error handler is invoked exactly once for every
\* executeJumpCommand call that returns success = false (validation failure,
\* missing editor path, build failure, launch error) and never for a call that
\* returns success = true.
C19_HandlerOncePerFailure ==
    \A c \in Callers :
        (Returned(c) /\ errorHandler # "none") =>
            calls[c].handlerCalls = IF calls[c].result.success THEN 0 ELSE 1

C19_Witness ==
    /\ errorHandler = "ok"
    /\ \E c \in Callers :
          /\ Returned(c) /\ ~calls[c].result.success
          /\ calls[c].child # 0 /\ children[calls[c].child].state = "failed"
          /\ calls[c].handlerCalls = 1
    /\ \E c \in Callers : Succeeded(c) /\ calls[c].handlerCalls = 0


\* C20: on darwin and linux, for every editor path E, file path F and line
\* n >= 1 the built command is exactly
\*     nohup 'E*' --line n "F" > /dev/null 2>&1 &
\* where E* is E with every single quote replaced by '"'"' and F stands
\* between the double quotes unchanged.
C20_UnixCommandExact ==
    (platform \in {"darwin", "linux"} /\ calls # << >> /\ calls[1].pc = "built") =>
        LET E == calls[1].params.editor.path
            F == calls[1].params.filePath
            n == calls[1].params.lineNumber
            Estar == ReplaceAll(E, "'", <<"'", "\"", "'", "\"", "'">>)
        IN  calls[1].command =
                <<"n", "o", "h", "u", "p", " ", "'">> \o Estar
                    \o <<"'", " ", "-", "-", "l", "i", "n", "e", " ">> \o NumStr(n)
                    \o <<" ", "\"">> \o F
                    \o <<"\"", " ", ">", " ", "/", "d", "e", "v", "/", "n", "u", "l", "l",
                         " ", "2", ">", "&", "1", " ", "&">>


ShellStart ==
    [mode |-> "plain", cur |-> << >>, open |-> FALSE, words |-> << >>,
     interpreted |-> FALSE]

\* the scanner after the character ch
ShellStep(st, ch) ==
    CASE st.mode = "end" -> st
      [] st.mode = "single" /\ ch = "'" -> [st EXCEPT !.mode = "plain"]
      [] st.mode = "single" /\ ch # "'" -> [st EXCEPT !.cur = Append(@, ch)]
      [] st.mode = "escaped" -> [st EXCEPT !.mode = "plain", !.cur = Append(@, ch)]
      [] st.mode = "dqescaped" /\ ch \in {"$", Backquote, "\"", "\\"} ->
            [st EXCEPT !.mode = "double", !.cur = Append(@, ch)]
      [] st.mode = "dqescaped" /\ ch \notin {"$", Backquote, "\"", "\\"} ->
            [st EXCEPT !.mode = "double", !.cur = @ \o <<"\\", ch>>]
      [] st.mode = "double" /\ ch = "\"" -> [st EXCEPT !.mode = "plain"]
      [] st.mode = "double" /\ ch = "\\" -> [st EXCEPT !.mode = "dqescaped"]
      [] st.mode = "double" /\ ch \in {"$", Backquote} -> [st EXCEPT !.interpreted = TRUE]
      [] st.mode = "double" /\ ch \notin {"\"", "\\", "$", Backquote} ->
            [st EXCEPT !.cur = Append(@, ch)]
      [] st.mode = "plain" /\ ch = " " ->
            [st EXCEPT !.cur = << >>, !.open = FALSE,
                       !.words = IF st.open THEN Append(@, st.cur) ELSE @]
      [] st.mode = "plain" /\ ch = "'" -> [st EXCEPT !.mode = "single", !.open = TRUE]
      [] st.mode = "plain" /\ ch = "\"" -> [st EXCEPT !.mode = "double", !.open = TRUE]
      [] st.mode = "plain" /\ ch = "\\" -> [st EXCEPT !.mode = "escaped", !.open = TRUE]
      [] st.mode = "plain" /\ ch \in {"$", Backquote} ->
            [st EXCEPT !.interpreted = TRUE, !.open = TRUE]
      [] st.mode = "plain" /\ ch \in {">", "&", ";", "|", "<", "(", ")"} ->
            [st EXCEPT !.mode = "end", !.cur = << >>, !.open = FALSE,
                       !.words = IF st.open THEN Append(@, st.cur) ELSE @]
      [] OTHER -> [st EXCEPT !.cur = Append(@, ch), !.open = TRUE]

\* the scanner after the characters lo..hi of s; the range is halved and the
\* left half is evaluated before the right half is entered, which keeps the
\* evaluation depth logarithmic in the length of s
RECURSIVE ShellScan(_, _, _, _)
ShellScan(s, st, lo, hi) ==
    IF lo > hi THEN st
    ELSE IF lo = hi THEN ShellStep(st, s[lo])
    ELSE LET mid == (lo + hi) \div 2
             left == ShellScan(s, st, lo, mid)
         IN  IF left.mode = "end" THEN left ELSE ShellScan(s, left, mid + 1, hi)

ShellWords(s) ==
    LET st == ShellScan(s, ShellStart, 1, Len(s))
    IN  [words |-> IF st.open THEN Append(st.words, st.cur) ELSE st.words,
         interpreted |-> st.interpreted,
         closed |-> st.mode \in {"plain", "end"}]

\* C22: the darwin and linux builders quote safely: read by the POSIX shell
\* quoting rules, the built command has the words nohup, E, --line, n, F for
\* every editor path E and file path F over an alphabet with space, single
\* quote, double quote, $ and backquote; no character of a path ends its
\* quoted segment or is interpreted by the shell.
C22_UnixCommandQuotedSafely ==
    (platform \in {"darwin", "linux"} /\ calls # << >> /\ calls[1].pc = "built") =>
        LET parsed == ShellWords(calls[1].command)
        IN  /\ parsed.closed /\ ~parsed.interpreted
            /\ parsed.words = <<Nohup, calls[1].params.editor.path, <<"-", "-", "l", "i", "n", "e">>,
                                NumStr(calls[1].params.lineNumber), calls[1].params.filePath>>


\* the accepted calls among the first n of the log whose timestamps lie in (t - timeWindow, t]
AcceptedIn(n, t) ==
    {j \in 1..n : /\ rateLimiter.log[j].ret
                   /\ rateLimiter.log[j].t > t - rateLimiter.timeWindow
                   /\ rateLimiter.log[j].t <= t}

\* C23: under a non-decreasing clock a rateLimit wrapper returns true exactly
\* for the calls it invokes f for; it rejects a call exactly when maxCalls
\* accepted calls have timestamps within the last timeWindow ms; so at every
\* instant t at most maxCalls accepted calls have timestamps in (t - timeWindow, t].
C23_RateLimitWindow ==
    /\ \A i \in 1..Len(rateLimiter.log) :
          /\ rateLimiter.log[i].ret = rateLimiter.log[i].invoked
          /\ ~rateLimiter.log[i].ret <=>
                 Cardinality(AcceptedIn(i - 1, rateLimiter.log[i].t)) >= rateLimiter.maxCalls
    /\ \A t \in 0..now :
          Cardinality(AcceptedIn(Len(rateLimiter.log), t)) <= rateLimiter.maxCalls

C23_Witness ==
    /\ rateLimiter.maxCalls = RateMaxCalls /\ rateLimiter.timeWindow = RateWindow
    /\ \E i, j \in 1..Len(rateLimiter.log) :
          /\ i < j
          /\ ~rateLimiter.log[i].ret
          /\ rateLimiter.log[j].ret
          /\ rateLimiter.log[j].t = rateLimiter.log[1].t + RateWindow
          /\ Len(rateLimiter.calls) = RateMaxCalls


\* C24: a retry wrapper attempts f at most maxRetries + 1 times; it resolves
\* with the result of the first successful attempt and makes no further
\* attempt; when all maxRetries + 1 attempts fail it rejects with the error
\* of the last one; retryDelay elapses between consecutive attempts and none
\* follows the final attempt, so the wrapper always terminates.
C24_RetryBounded ==
    /\ [](LET as == retrier.attempts
              n == Len(as)
          IN  /\ n <= retrier.maxRetries + 1
              /\ \A k \in 1..(n - 1) :
                    /\ ~as[k].ok /\ as[k].end >= as[k].start
                    /\ as[k + 1].start = as[k].end + retrier.retryDelay
              /\ retrier.pc = "done" =>
                    /\ retrier.outcome.t = as[n].end
                    /\ IF as[n].ok
                       THEN retrier.outcome = [status |-> "resolved", value |-> AttemptValue(n),
                                               t |-> as[n].end]
                       ELSE /\ n = retrier.maxRetries + 1
                            /\ retrier.outcome = [status |-> "rejected", error |-> AttemptError(n),
                                                  t |-> as[n].end])
    /\ (retrier.pc # "idle") ~> (retrier.pc = "done")

C24_Witness ==
    /\ retrier.pc = "done" /\ retrier.maxRetries = RetryMax /\ retrier.retryDelay = RetryDelay
    /\ Len(retrier.attempts) = RetryMax + 1
    /\ retrier.outcome.status = "rejected"
    /\ now = retrier.attempts[1].end + RetryMax * RetryDelay


\* the items func has received, in the order it received them
RECURSIVE Delivered(_)
Delivered(n) == IF n = 0 THEN << >> ELSE Delivered(n - 1) \o batcher.delivered[n]

\* C25: with maxBatchSize >= 1 every item passed to a batcher is delivered to
\* func exactly once, the items are delivered in the order they were added
\* (also when func calls the batcher back), and no batch passed to func is
\* empty or longer than maxBatchSize.
C25_BatchDeliversEachItemOnce ==
    /\ [](LET got == Delivered(Len(batcher.delivered))
          IN  /\ \A k \in 1..Len(batcher.delivered) :
                    /\ batcher.delivered[k] # << >>
                    /\ Len(batcher.delivered[k]) <= batcher.maxBatchSize
              /\ \A k \in 1..Len(got) : got[k] = k
              /\ got \o batcher.items = [k \in 1..batcher.added |-> k])
    /\ \A item \in 1..MaxBatchItems :
          (batcher.added >= item) ~> (Len(Delivered(Len(batcher.delivered))) >= item)


\* C26: over any sequence of calls of a once wrapper, re-entrant calls made
\* from inside f and a first call that throws included, f is invoked at most
\* once, and every call after the first returns the value the first call
\* returned, without invoking f.
C26_OnceMemoizesFirstCall ==
    /\ oncer.invocations <= 1
    /\ \A k \in 2..Len(oncer.log) :
          /\ oncer.log[k].end = "returned"
          /\ oncer.log[1].end = "returned" => oncer.log[k].ret = oncer.log[1].ret

\* C27: two trigger commands less than debounceTime apart lead to at most one
\* launch by executeJumpCommand: no two calls that launched a child started
\* less than the default debounce time apart
C27_TriggersDebounced ==
    \A c, d \in Callers :
        (c # d /\ calls[c].child # 0 /\ calls[d].child # 0)
            => (calls[c].startTime - calls[d].startTime >= DefaultDebounceTime
                \/ calls[d].startTime - calls[c].startTime >= DefaultDebounceTime)

\* C28: once debounceTime has passed since the last mouse selection change
\* made with the modifier keys held, in a workspace file, while the listener
\* was started and enabled and idle, the jump callback has been invoked with
\* the context of that event
C28_ModifierClickInvokesCallback ==
    LET ml == mouseListener
        e == ml.lastQualifying
    IN  (e # Undefined /\ now >= e.at + ml.config.debounceTime)
            => \E i \in 1..Len(ml.invoked) :
                   ml.invoked[i].at >= e.at /\ ml.invoked[i].context = e.context

\* the launched children that have neither exited nor emitted error nor been
\* swept by killAllProcesses
LiveChildren ==
    {k \in 1..Len(children) : children[k].state \in {"starting", "running"} /\ ~children[k].swept}

\* getRunningProcessCount()
getRunningProcessCount == Len(runningProcesses)

\* C29: the live-process table holds exactly the launched children that have
\* not exited, errored or been bulk-killed, so getRunningProcessCount() is
\* their number
C29_TableHoldsLiveChildren ==
    /\ Tabled = LiveChildren
    /\ getRunningProcessCount = Cardinality(LiveChildren)

\* the executeJumpCommand attempts that have started and not yet returned
InFlight == {c \in Callers : calls[c].pc \notin {"idle", "done"}}

\* the attempts the statistics have counted as finished
Counted == executionStats.successfulExecutions + executionStats.failedExecutions

\* C30: under any interleaving of executeJumpCommand attempts and
\* resetExecutionStats calls, successful + failed executions never exceed the
\* total and equal it when no attempt is in flight, and once an attempt has
\* been counted the average is totalExecutionTime divided by the positive
\* totalExecutions read when the latest attempt completed
C30_StatsConsistent ==
    LET st == executionStats
    IN  /\ Counted <= st.totalExecutions
        /\ InFlight = {} => Counted = st.totalExecutions
        /\ Counted > 0 =>
               /\ st.averageExecutionTime[1] = st.totalExecutionTime
               /\ st.averageExecutionTime[2] > 0
               /\ st.averageExecutionTime[2] <= st.totalExecutions

\* the shell-specific tokens: nohup, >, <, &, |, ;, $( and the backquote
ShellTokens == {<<"n", "o", "h", "u", "p">>, <<">">>, <<"<">>, <<"&">>, <<"|">>, <<";">>,
                <<"$", "(">>, <<Backquote>>}

HasShellToken(command) == \E token \in ShellTokens : Includes(command, token)

\* the words of a command: blanks outside double-quoted segments separate
\* them, the quotes of a segment are dropped, and a double quote that no later
\* quote closes separates words too.  The scan state is [inq, open, cur, words]
RECURSIVE QuoteScan(_, _)
QuoteScan(s, n) ==
    IF n = 0 THEN [inq |-> FALSE, open |-> FALSE, cur |-> << >>, words |-> << >>]
    ELSE LET st == QuoteScan(s, n - 1)
             ch == s[n]
             closed == st.inq \/ \E j \in (n + 1)..Len(s) : s[j] = "\""
         IN  IF ch = "\"" /\ closed THEN [st EXCEPT !.inq = ~@, !.open = TRUE]
             ELSE IF ch = "\"" \/ (ch \in Whitespace /\ ~st.inq)
                  THEN IF st.open
                       THEN [st EXCEPT !.open = FALSE, !.cur = << >>, !.words = Append(@, st.cur)]
                       ELSE st
             ELSE [st EXCEPT !.open = TRUE, !.cur = Append(@, ch)]

QuoteSplit(s) ==
    LET st == QuoteScan(s, Len(s))
    IN  IF st.open THEN Append(st.words, st.cur) ELSE st.words

\* the child was launched directly: program and argument vector are the words
\* of the command, and the child was unreferenced
LaunchedDirectly(child) ==
    LET words == QuoteSplit(child.command)
    IN  /\ ~child.shell /\ child.unref
        /\ Len(words) > 0
        /\ child.program = words[1]
        /\ child.arguments = SubSeq(words, 2, Len(words))

\* C31 as stated: on every platform a child is launched through a shell iff its
\* command has a shell token, and otherwise directly
C31_ShellIffShellToken ==
    \A k \in 1..Len(children) :
        IF HasShellToken(children[k].command)
        THEN children[k].shell /\ ~children[k].unref
        ELSE LaunchedDirectly(children[k])

\* C31 amended: on win32 every child is launched through a shell; on the other
\* platforms a child is launched through a shell iff its command has a shell
\* token, and otherwise directly with the quoted segments as single arguments
C31_ShellIffShellTokenOffWindows ==
    \A k \in 1..Len(children) :
        IF platform = "win32" \/ HasShellToken(children[k].command)
        THEN children[k].shell /\ ~children[k].unref
        ELSE LaunchedDirectly(children[k])

\* a child launched directly off win32 whose program is a quoted segment with a blank
C31_Witness ==
    /\ platform = "freebsd"
    /\ \E k \in 1..Len(children) :
          /\ ~children[k].shell /\ children[k].unref
          /\ children[k].program = <<"/", " ">>
          /\ children[k].arguments = <<<<"-", "-", "l", "i", "n", "e">>, <<"1">>, <<"/">>>>

\* C32: in every reachable state of the cache the access-timestamp map and
\* the entry map have the same keys
C32_AccessKeysMatchEntries ==
    /\ MapKeys(accessTimes) = MapKeys(cache)
    /\ Len(accessTimes) = Len(cache)

\* after the first sweep removed an expired entry and kept a fresh one
C32_Witness ==
    /\ cacheLife.cleanupTimer = 2 * CleanupInterval
    /\ now = CleanupInterval
    /\ Len(cache) = 1
    /\ \E k \in CacheKeys : shadow[k].live /\ ~MapHas(cache, k)

\* a step of the cleanup interval timer
SweepStep ==
    /\ cacheLife.cleanupTimer >= 0
    /\ cacheLife'.cleanupTimer = cacheLife.cleanupTimer + CleanupInterval

\* C33: while the cache is not disposed the next sweep is never overdue and
\* never more than 30 s away; a sweep leaves exactly the entries that are not
\* expired (now - timestamp > ttl) at that instant; and so no entry stays in
\* the store for more than 30 s after timestamp + ttl
C33_SweepEveryThirtySeconds ==
    /\ [](cacheLife.cleanupTimer >= 0 =>
             /\ now <= cacheLife.cleanupTimer
             /\ cacheLife.cleanupTimer - now <= CleanupInterval
             /\ \A i \in 1..Len(cache) :
                    now - (cache[i].timestamp + cache[i].ttl) <= CleanupInterval)
    /\ [][SweepStep =>
              cache' = SelectSeq(cache, LAMBDA e : ~(now - e.timestamp > e.ttl))]_vars

\* an entry that was still fresh at the first sweep, at the instant
\* timestamp + ttl, has been removed by the second sweep
C33_Witness ==
    /\ now = 2 * CleanupInterval
    /\ cacheLife.cleanupTimer = 3 * CleanupInterval
    /\ \E k \in CacheKeys :
          /\ shadow[k].live /\ ~MapHas(cache, k)
          /\ shadow[k].timestamp + shadow[k].ttl = CleanupInterval

\* C36: the number of stored entries is at most maxCacheSize, except between
\* an updateConfig that lowered maxCacheSize below the current size and the
\* next set of a new key
C36_SizeWithinMaxCacheSize ==
    ~cacheLife.lowered => Len(cache) <= config.maxCacheSize

----------------------------------------------------------------------------
(* Properties of one burst of calls without maxWait (SpecDebounceBurst)     *)

\* the most invocations the options allow one burst
BurstLimit == IF opts.leading /\ opts.trailing THEN 2
              ELSE IF opts.leading \/ opts.trailing THEN 1 ELSE 0

\* C34: without maxWait, one burst of calls (consecutive calls less than wait apart, with
\* a quiet period of at least wait before and after) results in at most one invocation of
\* f, at most two when leading and trailing are both true, and none when both are false
C34_BurstInvocationsBounded ==
    opts.maxWait = -1 =>
        /\ Len(burst.invs) <= BurstLimit
        /\ prevBurst.start # -1 => Len(prevBurst.invs) <= BurstLimit

\* two bursts have passed with leading and trailing both true, the first one with its
\* two invocations, and the quiet period after the second has elapsed
C34_Witness ==
    /\ opts.maxWait = -1 /\ opts.leading /\ opts.trailing
    /\ prevBurst.start # -1
    /\ Len(prevBurst.invs) = 2
    /\ Len(burst.invs) >= 1
    /\ timerId = 0
    /\ now - lastCallTime >= opts.wait

----------------------------------------------------------------------------
(* Properties of the batch wrapper when func may throw (SpecBatchThrow)     *)

\* C35: every item added to a batcher is delivered to func no later than delay ms
\* after the first item of its batch was added, or at once when the batch reaches
\* maxBatchSize, also after earlier invocations of func that threw: the items that
\* wait are fewer than maxBatchSize, and the oldest was added at most delay ms ago
C35_DeliveredWithinDelay ==
    batcher.items # << >> =>
        /\ Len(batcher.items) < batcher.maxBatchSize
        /\ now - batcher.addedAt[batcher.items[1]] <= batcher.delay

----------------------------------------------------------------------------
(* Properties of the editor registry: uniqueness (SpecRegistry)             *)

\* C38: starting from an empty registry, after any sequence of addEditor, updateEditor,
\* deleteEditor and setDefaultEditor operations no two EditorConfig entries have the
\* same path and no two have the same id (an operation that would create a duplicate
\* path fails and leaves the registry as it was)
C38_PathsAndIdsUnique ==
    \A i, j \in 1..Len(editors) :
        i # j => editors[i].path # editors[j].path /\ editors[i].id # editors[j].id

----------------------------------------------------------------------------
(* Properties of registry operations in flight together (SpecRegistryFlight) *)

EditorPresent(id) == \E i \in 1..Len(editors) : editors[i].id = id

\* another operation of the round wrote the same field of the same editor, removed the
\* editor, or chose a default itself
Overridden(k) ==
    LET op == inFlight.round[k]
    IN  \E j \in 1..Len(inFlight.round) :
            LET other == inFlight.round[j]
            IN  /\ j # k
                /\ IF op.kind = "update"
                   THEN other.id = op.id /\ other.kind \in {"update", "delete"}
                   ELSE \/ other.kind = "setDefault"
                        \/ other.updates.isDefault # Absent
                        \/ other.kind = "delete"

\* C37: when registry operations are in flight together, each reading the editor list
\* and then awaiting the settings write, the registry at rest reflects them all: every
\* editor addEditor returned is present unless a deleteEditor for its id succeeded, the
\* path and name an update wrote are still there, and the editor setDefaultEditor chose
\* is the default (unless another operation of the round set the same thing)
C37_RegistryReflectsAll ==
    inFlight.pending = {} =>
        /\ \A id \in inFlight.added \ inFlight.deleted : EditorPresent(id)
        /\ \A k \in 1..Len(inFlight.round) :
              LET op == inFlight.round[k]
              IN  ~Overridden(k) =>
                    \A i \in 1..Len(editors) :
                        editors[i].id = op.id =>
                            /\ op.kind = "update" /\ Given(op.updates.path) =>
                                    editors[i].path = op.updates.path
                            /\ op.kind = "update" /\ Given(op.updates.name) =>
                                    editors[i].name = op.updates.name
                            /\ op.kind = "setDefault" => editors[i].isDefault

----------------------------------------------------------------------------
(* Properties of the debounce time setting (SpecSettings)                   *)

\* C40: for every integer t in 0..5000, after updateDebounceTime(t) returned true,
\* getDebounceTime() returns t; for t < 0 or t > 5000 updateDebounceTime returns
\* false and the stored debounce time is unchanged
C40_DebounceTimeRoundTrip ==
    settings.lastUpdate.op = "update" =>
        LET u == settings.lastUpdate
        IN  /\ u.ok <=> (u.time >= 0 /\ u.time <= MaxDebounceTime)
            /\ u.ok => getDebounceTime(settings) = u.time
            /\ ~u.ok => settings.debounceTime = u.before

----------------------------------------------------------------------------
(* Properties of the invocations of func over a whole history (SpecDebounceCtl) *)

\* C39: for every debounced or throttled wrapper and any interleaving of calls, timer
\* expiries (timers left running by the maxWait path included), cancel() and flush():
\* func is only invoked with the arguments of an earlier call, the arguments of a call
\* are used for at most one invocation, and there are never more invocations than calls
C39_InvocationsUseCallArgs ==
    /\ \A k \in 1..Len(burst.all) : burst.all[k] \in 1..(nextArg - 1)
    /\ \A j, k \in 1..Len(burst.all) : j # k => burst.all[j] # burst.all[k]
    /\ Len(burst.all) <= nextArg - 1

\* a wrapper with maxWait after a cancel() and a flush(): func has run twice, and two
\* timers are armed, one of them left running when the maxWait path armed the other
C39_Witness ==
    /\ opts.maxWait # -1
    /\ afterCancel.n >= 1 /\ lastFlush.n >= 1
    /\ Len(burst.all) >= 2
    /\ Cardinality(timers) >= 2

====
